---- MODULE Spec2Model ----
(***************************************************************************)
(* A model of the MeshAI MCP server's request pipeline:                    *)
(*   AuthMiddleware.dispatch -> AuthClient.get_user_context ->             *)
(*   handle_mcp_request -> TenantGatewayClient.forward_mcp_request,        *)
(* with the gateway client's circuit breaker and retry loop.               *)
(*                                                                         *)
(* The server runs on asyncio: a request-handling task runs without        *)
(* interruption between two awaits that suspend it (an HTTP call to the    *)
(* auth service or to the gateway, asyncio.sleep).  One action of the      *)
(* model is one such run of one task.                                      *)
(***************************************************************************)
EXTENDS Integers, Sequences, FiniteSets, TLC

\* ------------------------------------------------------------------ bounds

\* Concurrent request-handling tasks.
NumTasks == 2
\* Requests started over a run of Spec (HTTP requests and handler calls).
MaxRequests == 3
\* forward_mcp_request calls started over a run of SpecGateway.
MaxForwardCalls == 4
\* Times the clock advances.
MaxTicks == 1
\* get_user_context calls started over a run of SpecAuth.
MaxValidateCalls == 4
\* start() and stop() calls on the gateway client.
\* Direct calls of check_rate_limit and get_rate_limit_info.
MaxRateCalls == 5
\* Times the clock advances between those calls.
MaxHourTicks == 2
\* Calls of the methods of a RateLimiter.
MaxLimiterCalls == 5
\* Times the clock advances between those calls.
MaxWindowTicks == 2
\* RateLimiter.max_attempts (5 for the authentication limiter), scaled down.
max_attempts == 2
MaxLifecycleOps == 2
\* Lines written to the standard input of claude-desktop-proxy.
MaxLines == 3

\* CircuitBreakerState(failure_threshold=5) (gateway_client.py:45), scaled down.
failure_threshold == 2
\* AuthConfig.default_rate_limit (100 in auth/models.py:97), scaled down.
default_rate_limit == 2

\* ------------------------------------------------------- program constants

recovery_timeout == 60
retry_attempts == 3
auth_retry_attempts == 3
\* timedelta.seconds is the seconds part of a duration, days taken out.
SecondsPerDay == 86400
\* int(time.time() / 3600): the hour bucket of the per-user limiter.
SecondsPerHour == 3600
max_size_bytes == 1048576
\* RateLimiter.window_seconds
window_seconds == 300
cache_ttl_seconds == 300
\* last_failure_time = None
NoTime == -1

Tasks == 1..NumTasks
\* The amounts by which the clock advances.
TickSteps == {30, recovery_timeout, SecondsPerDay}

None == "None"

\* ------------------------------------------------------------ dictionaries

EmptyDict == <<>>

DictGet(d, k, default) == IF k \in DOMAIN d THEN d[k] ELSE default

DictPut(d, k, v) == [x \in (DOMAIN d) \cup {k} |-> IF x = k THEN v ELSE d[x]]

DictDrop(d, ks) == [x \in (DOMAIN d) \ ks |-> d[x]]

Range(s) == {s[i] : i \in DOMAIN s}

\* ------------------------------------------------------------------- state

VARIABLES
    now,          \* the clock, in seconds (datetime.utcnow(), time.time())
    ticks,        \* times the clock advanced
    started,      \* requests and calls started so far
    lifecycle,    \* start() and stop() calls so far
    session,      \* TenantGatewayClient.session is not None
    cb,           \* TenantGatewayClient.circuit_breaker
    stats,        \* _active_requests, _total_requests, _failed_requests
    streak,       \* record_failure calls since the last record_success
    token_cache,  \* AuthClient._token_cache
    rate_limits,  \* AuthClient._rate_limits
    validated,    \* history: per token, what get_user_context calls found (see remember)
    admitted,     \* history: per user and hour bucket, check_rate_limit calls that returned True
    limiter,      \* RateLimiter.attempts
    environment,  \* MESHAI_ENVIRONMENT of the process
    stdin,        \* claude-desktop-proxy: lines of sys.stdin not yet read
    stdout,       \* claude-desktop-proxy: lines printed to sys.stdout
    proxy,        \* claude-desktop-proxy: position and locals of proxy_request
    task          \* each task's position and local variables

vars ==
    <<now, ticks, started, lifecycle, session, cb, stats, streak, token_cache, rate_limits,
      validated, admitted, limiter, environment, stdin, stdout, proxy, task>>

\* ------------------------------------------------------- circuit breaker

CircuitBreakerInit ==
    [failure_count |-> 0, last_failure_time |-> NoTime, state |-> "closed"]

record_success_keeps_state(b) ==
    [b EXCEPT !.failure_count = 0]

record_success(b) ==
    [b EXCEPT !.failure_count = 0, !.state = "closed"]

OpensAt(count) == count >= failure_threshold

record_failure_no_time(b, t) ==
    [failure_count |-> b.failure_count + 1,
     last_failure_time |-> b.last_failure_time,
     state |-> IF OpensAt(b.failure_count + 1) THEN "open" ELSE b.state]

record_failure(b, t) ==
    [failure_count |-> b.failure_count + 1,
     last_failure_time |-> t,
     state |-> IF OpensAt(b.failure_count + 1) THEN "open" ELSE b.state]

\* (datetime.utcnow() - last_failure_time).seconds
timedelta_seconds(d) == d % SecondsPerDay

RecoveryElapsed(b, t) ==
    /\ b.last_failure_time # NoTime
    /\ timedelta_seconds(t - b.last_failure_time) >= recovery_timeout

\* What can_execute returns.
can_execute(b, t) ==
    CASE b.state = "closed" -> TRUE
      [] b.state = "open" -> RecoveryElapsed(b, t)
      [] OTHER -> TRUE

\* The breaker after can_execute.
can_execute_state(b, t) ==
    IF b.state = "open" /\ RecoveryElapsed(b, t)
    THEN [b EXCEPT !.state = "half-open"]
    ELSE b

\* --------------------------------------------------------- data of a task

NoUser ==
    [present |-> FALSE, user_id |-> "", tenant_id |-> None,
     permissions |-> <<>>, rate_limit |-> 0]

UserContext(uid, tid, perms, limit) ==
    [present |-> TRUE, user_id |-> uid, tenant_id |-> tid,
     permissions |-> perms, rate_limit |-> limit]

NoError == [code |-> 0, message |-> "", detail |-> ""]

Error(c, m, d) == [code |-> c, message |-> m, detail |-> d]

\* MCPForwardResponse (tenant_context.py): success, result, error.
NoForwardResponse == [made |-> FALSE, success |-> FALSE, result |-> None, error |-> NoError]

MCPForwardResponse(ok, res, err) ==
    [made |-> TRUE, success |-> ok, result |-> res, error |-> err]

\* What a caller of the HTTP endpoint receives: the HTTP status and the body.
\* kind: "none", "result", "error", "empty" (no body), "http" (a plain HTTP answer).
NoResponse ==
    [kind |-> "none", status |-> 0, id |-> None, result |-> None, error |-> NoError]

MCPSuccessResponse(i, res) ==
    [kind |-> "result", status |-> 200, id |-> i, result |-> res, error |-> NoError]

MCPErrorResponse(i, err) ==
    [kind |-> "error", status |-> 200, id |-> i, result |-> None, error |-> err]

EmptyResponse(st) ==
    [kind |-> "empty", status |-> st, id |-> None, result |-> None, error |-> NoError]

HttpResponse(st) ==
    [kind |-> "http", status |-> st, id |-> None, result |-> None, error |-> NoError]

\* params._request_metadata of a message: absent, or its public_server, user_id
\* and tenant_id.
NoMetadata == [present |-> FALSE, public_server |-> FALSE, user_id |-> "", tenant_id |-> None]

Metadata(ps, uid, tid) ==
    [present |-> TRUE, public_server |-> ps, user_id |-> uid, tenant_id |-> tid]

\* A params mapping: the arguments of the method and _request_metadata.
Params(args, meta) == [arguments |-> args, request_metadata |-> meta]

EmptyParams == Params({}, NoMetadata)

\* An mcp_message dict: its id and method, and under "params", if it has the
\* key, a reference to a params mapping among the objects of the call.
McpMessage(i, m, has, ref) == [id |-> i, method |-> m, has_params |-> has, params |-> ref]

\* The value of an mcp_message dict read through its reference.
MessageValue(i, m, has, params) ==
    [id |-> i, method |-> m, has_params |-> has, params |-> params]

NoMessageValue == MessageValue(None, "", FALSE, EmptyParams)

\* MCPRequest (http_server.py): method, id, params (None and {} both read as
\* EmptyParams: the handler passes `request.params or {}`), and the size in
\* bytes of the JSON serialization of the mcp_message built from it.
NoRequest == [method |-> "", id |-> None, size |-> 0, params |-> EmptyParams]

\* The message given to forward_mcp_request: params._request_metadata as stamped.
NoMessage ==
    [id |-> None, method |-> "", stamped |-> FALSE, meta_user_id |-> "",
     meta_tenant_id |-> None, public_server |-> FALSE]

\* The payload of a POST to the gateway's execute endpoint.
NoPayload == [sent |-> FALSE, user_id |-> "", tenant_id |-> None, mcp_message |-> NoMessage]

NoHeader == [present |-> FALSE, bearer |-> FALSE, rest |-> ""]

\* A reply of the gateway to POST /api/v1/mcp/execute, or the failure of the call.
NoGatewayReply ==
    [kind |-> "none", status |-> 0, json_ok |-> FALSE, success |-> FALSE,
     result |-> None, error |-> NoError, detail |-> None]

GatewayResponse(st, js, ok, res, err, det) ==
    [kind |-> "response", status |-> st, json_ok |-> js, success |-> ok,
     result |-> res, error |-> err, detail |-> det]

GatewayFailure(k) ==
    [kind |-> k, status |-> 0, json_ok |-> FALSE, success |-> FALSE,
     result |-> None, error |-> NoError, detail |-> None]

\* A "result" of a gateway body that is not a JSON object.
NotADict == "[1, 2]"

GatewayReplies ==
    { GatewayResponse(200, TRUE, TRUE, "tools", NoError, None),
      GatewayResponse(200, TRUE, TRUE, NotADict, NoError, None),
      GatewayResponse(200, TRUE, TRUE, None, NoError, None),
      GatewayResponse(200, TRUE, FALSE, None, Error(-32601, "Method not found", ""), None),
      GatewayResponse(200, TRUE, FALSE, None, NoError, None),
      GatewayResponse(200, FALSE, FALSE, None, NoError, None),
      GatewayResponse(400, TRUE, FALSE, None, NoError, None),
      GatewayResponse(400, TRUE, FALSE, None, NoError, "bad field"),
      GatewayResponse(400, FALSE, FALSE, None, NoError, None),
      GatewayResponse(401, TRUE, FALSE, None, NoError, None),
      GatewayResponse(403, TRUE, FALSE, None, NoError, None),
      GatewayResponse(429, TRUE, FALSE, None, NoError, None),
      GatewayResponse(500, TRUE, FALSE, None, NoError, None),
      GatewayFailure("conn_error"),
      GatewayFailure("timeout") }

\* A reply of the auth service to POST /api/validate-key, or the failure of the call.
\* user: the id in the body's "user" object; user_id: a "user_id" of the body itself.
\* permissions: perm_shape says what the body holds under "permissions": nothing
\* ("absent"), a list (perm_items), an object (perm_scopes, perm_resources; a
\* missing key reads as the empty list, as perms.get(key, []) does), a string
\* (perm_items holds the tokens of its text), or a value of another type ("other").
NoAuthReply ==
    [kind |-> "none", status |-> 0, valid |-> FALSE, user |-> None, user_id |-> None,
     tenant |-> None, perm_shape |-> "absent", perm_items |-> <<>>,
     perm_scopes |-> <<>>, perm_resources |-> <<>>]

AuthResponse(st, v, u, tn, shape, items) ==
    [kind |-> "response", status |-> st, valid |-> v, user |-> u, user_id |-> None,
     tenant |-> tn, perm_shape |-> shape, perm_items |-> items,
     perm_scopes |-> <<>>, perm_resources |-> <<>>]

AuthFailure(k) ==
    [kind |-> k, status |-> 0, valid |-> FALSE, user |-> None, user_id |-> None,
     tenant |-> None, perm_shape |-> "absent", perm_items |-> <<>>,
     perm_scopes |-> <<>>, perm_resources |-> <<>>]

\* A response of the auth service whose body response.json() cannot decode.
MalformedAuthResponse(st) ==
    [kind |-> "malformed", status |-> st, valid |-> FALSE, user |-> None, user_id |-> None,
     tenant |-> None, perm_shape |-> "absent", perm_items |-> <<>>,
     perm_scopes |-> <<>>, perm_resources |-> <<>>]

AuthReplies ==
    { AuthResponse(200, TRUE, "U1", "T1", "list", <<"mcp:execute">>),
      AuthResponse(200, TRUE, "U1", None, "absent", <<>>),
      [AuthResponse(200, TRUE, None, "T1", "list", <<"mcp:execute">>)
          EXCEPT !.user_id = "U1"],
      AuthResponse(200, FALSE, None, None, "absent", <<>>),
      MalformedAuthResponse(200),
      AuthResponse(401, FALSE, None, None, "absent", <<>>),
      AuthResponse(429, FALSE, None, None, "absent", <<>>),
      AuthResponse(500, FALSE, None, None, "absent", <<>>),
      AuthFailure("request_error"),
      AuthFailure("timeout") }

\* The body of a reply as _extract_permissions_from_dashboard_response reads it.
PermissionsData(shape, items, scopes, resources) ==
    [perm_shape |-> shape, perm_items |-> items,
     perm_scopes |-> scopes, perm_resources |-> resources]

NoData == PermissionsData("absent", <<>>, <<>>, <<>>)

\* TokenValidation (auth/models.py).
TokenValidation(v, uid, tid, perms, errk) ==
    [valid |-> v, user_id |-> uid, tenant_id |-> tid, permissions |-> perms,
     rate_limit |-> 0, error |-> errk]

NoValidation == TokenValidation(FALSE, None, None, <<>>, None)

\* RateLimitInfo (auth/models.py) before any was returned.
NoRateLimitInfo == [limit |-> 0, remaining |-> 0, reset_time |-> 0, window_seconds |-> 0]

\* A message given to Server.handle_message (protocol.py): its "type", "method"
\* and "id", None where the key is missing.
ServerMessage(ty, m, i) == [type |-> ty, method |-> m, id |-> i]

NoServerMessage == ServerMessage(None, None, None)

\* What Server.handle_message returns: None (returned is FALSE), or a dict with
\* its keys, "type", "id", and the "result" or the "error" code and message.
NoServerResponse ==
    [returned |-> FALSE, keys |-> {}, type |-> None, id |-> None, result |-> None,
     code |-> 0, message |-> ""]

ServerResult(i, res) ==
    [returned |-> TRUE, keys |-> {"type", "id", "result"}, type |-> "response",
     id |-> i, result |-> res, code |-> 0, message |-> ""]

ServerError(i, c, m) ==
    [returned |-> TRUE, keys |-> {"type", "id", "error"}, type |-> "response",
     id |-> i, result |-> None, code |-> c, message |-> m]

IdleTask ==
    [pc |-> "idle", entry |-> "none",
     allowed |-> FALSE, rate_info |-> NoRateLimitInfo,
     identifier |-> "", number |-> NoTime,
     data |-> NoData, permissions |-> <<>>,
     message |-> NoServerMessage, handlers |-> {}, handler_raises |-> FALSE,
     response |-> NoServerResponse,
     mcp_message |-> NoMessageValue, mcp_message_after |-> NoMessageValue,
     processed_message |-> NoMessageValue,
     path |-> "", method |-> "", token |-> None, auth_client |-> "none",
     req |-> NoRequest, user |-> NoUser,
     auth_attempt |-> 0, auth_calls |-> 0, auth_errors |-> 0,
     auth_reply |-> NoAuthReply,
     validation |-> NoValidation,
     rl_checked |-> FALSE, rl_count |-> 0,
     handler_ran |-> FALSE, hc |-> "unasked",
     gate |-> "none", payload |-> NoPayload,
     attempt |-> 0, attempts |-> 0, posts |-> 0, errors |-> 0, transport |-> 0,
     backoffs |-> 0,
     last_error |-> "", gw_reply |-> NoGatewayReply,
     outcome |-> "none", fwd |-> NoForwardResponse, resp |-> NoResponse]

\* -------------------------------------------------- TenantGatewayClient

StatsInit == [active |-> 0, total |-> 0, failed |-> 0]

\* The state a step of a task leaves: the task, the breaker, the counters.
World(tk, b, st, sk) == [tk |-> tk, cb |-> b, stats |-> st, streak |-> sk]

CircuitOpenResponse ==
    MCPForwardResponse(FALSE, None,
        Error(-32603, "Gateway service temporarily unavailable", ""))

CommunicationErrorResponse(err) ==
    MCPForwardResponse(FALSE, None, Error(-32603, "Gateway communication error", err))

\* _execute_request raises on this reply.
ReplyRaises(r) ==
    \/ r.kind # "response"
    \/ r.status \in {200, 400} /\ ~r.json_ok
    \/ r.status \notin {200, 400, 401, 403, 429}

\* The exception _execute_request raises on this reply.
ReplyErrorKind(r) ==
    CASE r.kind # "response" -> r.kind
      [] r.status \in {200, 400} -> "bad_json"
      [] OTHER -> "http_status"

\* Errors of the transport: connection failure, timeout, unexpected HTTP status.
TransportErrors == {"conn_error", "timeout", "http_status"}

\* What _execute_request returns on a reply it does not raise on.
Translate(r) ==
    CASE r.status = 200 -> MCPForwardResponse(r.success, r.result, r.error)
      [] r.status = 400 ->
            MCPForwardResponse(FALSE, None,
                Error(-32602, IF r.detail = None THEN "Bad request" ELSE r.detail, ""))
      [] r.status = 401 ->
            MCPForwardResponse(FALSE, None, Error(-32001, "Authentication failed", ""))
      [] r.status = 403 ->
            MCPForwardResponse(FALSE, None, Error(-32002, "Access denied", ""))
      [] OTHER ->
            MCPForwardResponse(FALSE, None, Error(-32003, "Rate limit exceeded", ""))

handler_response_unguarded(req, fr) ==
    IF fr.success
    THEN MCPSuccessResponse(req.id, IF fr.result = None THEN "{}" ELSE fr.result)
    ELSE MCPErrorResponse(req.id, fr.error)

\* handle_mcp_request, from the return of forward_mcp_request on: the response
\* models validate their fields, and what they raise is caught by the handler.
handler_response(req, fr) ==
    CASE fr.success /\ fr.result = NotADict ->
            MCPErrorResponse(req.id, Error(-32603, "Internal error", "validation error"))
      [] fr.success ->
            MCPSuccessResponse(req.id, IF fr.result = None THEN "{}" ELSE fr.result)
      [] fr.error = NoError ->
            MCPErrorResponse(req.id, Error(-32603, "Internal error", "validation error"))
      [] OTHER -> MCPErrorResponse(req.id, fr.error)

\* forward_mcp_request returns fr to its caller.
forward_return(tk, fr, oc) ==
    IF tk.entry = "forward"
    THEN [tk EXCEPT !.pc = "done", !.fwd = fr, !.outcome = oc, !.last_error = ""]
    ELSE [tk EXCEPT !.pc = "done", !.fwd = fr, !.outcome = oc, !.last_error = "",
                    !.resp = handler_response(tk.req, fr)]

forward_failed_no_finally(tk, b, st, sk, t, err) ==
    World(forward_return(tk, CommunicationErrorResponse(err), "failure"),
          record_failure(b, t),
          [st EXCEPT !.failed = @ + 1],
          sk + 1)

\* forward_mcp_request, `except Exception` and `finally`.
forward_failed(tk, b, st, sk, t, err) ==
    World(forward_return(tk, CommunicationErrorResponse(err), "failure"),
          record_failure(b, t),
          [st EXCEPT !.failed = @ + 1, !.active = @ - 1],
          sk + 1)

\* forward_mcp_request, from the return of _execute_with_retries on.
forward_succeeded(tk, b, st, sk, fr) ==
    World(forward_return(tk, fr, "success"),
          record_success(b),
          [st EXCEPT !.active = @ - 1],
          0)

\* `except Exception` of _execute_with_retries: every exception is caught.
Retryable(err) == TRUE

should_retry_once_more(attempt) == attempt < retry_attempts

\* attempt < self.config.retry_attempts - 1
should_retry(attempt) == attempt < retry_attempts - 1

\* _execute_with_retries, an attempt has raised err.
attempt_raised(tk, b, st, sk, t, err) ==
    LET tk1 == [tk EXCEPT !.errors = @ + 1, !.last_error = err,
                          !.transport = IF err \in TransportErrors THEN @ + 1 ELSE @]
    IN  IF Retryable(err) /\ should_retry(tk.attempt)
        THEN World([tk1 EXCEPT !.pc = "gw_sleep", !.backoffs = @ + 1], b, st, sk)
        ELSE forward_failed(tk1, b, st, sk, t, err)

\* _execute_request, up to the POST it awaits.
execute_attempt(tk, b, st, sk, sess, t) ==
    LET tk1 == [tk EXCEPT !.attempts = @ + 1]
    IN  IF ~sess
        THEN attempt_raised(tk1, b, st, sk, t, "not_initialized")
        ELSE World([tk1 EXCEPT !.pc = "gw_post", !.posts = @ + 1], b, st, sk)

GatewayPayload(u, msg) ==
    [sent |-> TRUE, user_id |-> u.user_id, tenant_id |-> u.tenant_id, mcp_message |-> msg]

forward_enter_counts_first(tk, msg, b, st, sk, sess, t) ==
    IF ~can_execute(b, t)
    THEN World(forward_return([tk EXCEPT !.gate = "rejected"],
                              CircuitOpenResponse, "rejected"),
               can_execute_state(b, t), [st EXCEPT !.total = @ + 1], sk)
    ELSE execute_attempt(
             [tk EXCEPT !.gate = can_execute_state(b, t).state,
                        !.payload = GatewayPayload(tk.user, msg)],
             can_execute_state(b, t),
             [st EXCEPT !.active = @ + 1, !.total = @ + 1],
             sk, sess, t)

\* forward_mcp_request, up to its first await that suspends.
forward_enter(tk, msg, b, st, sk, sess, t) ==
    IF ~can_execute(b, t)
    THEN World(forward_return([tk EXCEPT !.gate = "rejected"],
                              CircuitOpenResponse, "rejected"),
               can_execute_state(b, t), st, sk)
    ELSE execute_attempt(
             [tk EXCEPT !.gate = can_execute_state(b, t).state,
                        !.payload = GatewayPayload(tk.user, msg)],
             can_execute_state(b, t),
             [st EXCEPT !.active = @ + 1, !.total = @ + 1],
             sk, sess, t)

\* ------------------------------------------------------------- AuthClient

DefaultPermissions == <<"read:tools", "read:resources", "execute:mcp">>

\* The tokens of a JSON text: punctuation, string literals, and anything else,
\* which is no JSON token at all.
Punctuation == {"[", "]", "{", "}", ",", ":"}

Literals ==
    {"scopes", "resources", "read", "write", "agents", "tasks", "mcp:execute",
     "read:tools"}

\* What json.loads gives: ok is FALSE where it raises JSONDecodeError.
NotJson ==
    [ok |-> FALSE, shape |-> "none", items |-> <<>>, keys |-> {},
     scopes |-> <<>>, resources |-> <<>>]

JsonList(items) == [NotJson EXCEPT !.ok = TRUE, !.shape = "list", !.items = items]

JsonDict(keys, scopes, resources) ==
    [NotJson EXCEPT !.ok = TRUE, !.shape = "dict", !.keys = keys,
                    !.scopes = scopes, !.resources = resources]

JsonString == [NotJson EXCEPT !.ok = TRUE, !.shape = "str"]

RECURSIVE json_elements(_)
\* The elements of an array of strings: literal ("," literal)*.
json_elements(toks) ==
    IF toks = <<>> \/ Head(toks) \notin Literals THEN NotJson
    ELSE IF Len(toks) = 1 THEN JsonList(<<Head(toks)>>)
    ELSE IF toks[2] # "," THEN NotJson
    ELSE LET rest == json_elements(Tail(Tail(toks)))
         IN  IF rest.ok THEN JsonList(<<Head(toks)>> \o rest.items) ELSE NotJson

json_array(toks) ==
    IF Len(toks) < 2 \/ Head(toks) # "[" \/ toks[Len(toks)] # "]" THEN NotJson
    ELSE IF Len(toks) = 2 THEN JsonList(<<>>)
    ELSE json_elements(SubSeq(toks, 2, Len(toks) - 1))

\* The position of the first "]" of toks, 0 if there is none.
first_close(toks) ==
    IF \E i \in 1..Len(toks) : toks[i] = "]"
    THEN CHOOSE i \in 1..Len(toks) :
            toks[i] = "]" /\ \A j \in 1..(i - 1) : toks[j] # "]"
    ELSE 0

RECURSIVE json_members(_)
\* The members of an object whose values are arrays of strings:
\* key ":" array ("," key ":" array)*; of a repeated key the last value stays.
json_members(toks) ==
    LET close == first_close(toks)
        value == json_array(SubSeq(toks, 3, close))
        rest  == SubSeq(toks, close + 1, Len(toks))
        more  == IF rest = <<>> THEN JsonDict({}, <<>>, <<>>)
                 ELSE json_members(Tail(rest))
        key   == toks[1]
    IN  IF Len(toks) < 4 \/ toks[1] \notin Literals \/ toks[2] # ":" \/ close = 0
        THEN NotJson
        ELSE IF ~value.ok \/ (rest # <<>> /\ Head(rest) # ",") \/ ~more.ok
        THEN NotJson
        ELSE JsonDict(more.keys \cup {key},
                      IF key = "scopes" /\ "scopes" \notin more.keys
                      THEN value.items ELSE more.scopes,
                      IF key = "resources" /\ "resources" \notin more.keys
                      THEN value.items ELSE more.resources)

json_object(toks) ==
    IF Len(toks) < 2 \/ Head(toks) # "{" \/ toks[Len(toks)] # "}" THEN NotJson
    ELSE IF Len(toks) = 2 THEN JsonDict({}, <<>>, <<>>)
    ELSE json_members(SubSeq(toks, 2, Len(toks) - 1))

\* json.loads, on the texts of JsonTexts: arrays of strings, objects of such
\* arrays, one string, and texts that are no JSON.
json_loads(toks) ==
    IF toks = <<>> THEN NotJson
    ELSE IF Head(toks) = "[" THEN json_array(toks)
    ELSE IF Head(toks) = "{" THEN json_object(toks)
    ELSE IF Len(toks) = 1 /\ Head(toks) \in Literals THEN JsonString
    ELSE NotJson

RECURSIVE for_resource(_, _)
\* for resource in resources: permissions.append(f"{scope}:{resource}")
for_resource(scope, resources) ==
    IF resources = <<>> THEN <<>>
    ELSE <<scope \o ":" \o Head(resources)>> \o for_resource(scope, Tail(resources))

RECURSIVE for_scope(_, _)
\* for scope in scopes: for resource in resources: ...
for_scope(scopes, resources) ==
    IF scopes = <<>> THEN <<>>
    ELSE for_resource(Head(scopes), resources) \o for_scope(Tail(scopes), resources)

\* The list the branches of _extract_permissions_from_dashboard_response build
\* before the default is applied.
extracted(data) ==
    CASE data.perm_shape = "dict" -> for_scope(data.perm_scopes, data.perm_resources)
      [] data.perm_shape = "list" -> data.perm_items
      [] data.perm_shape = "str" ->
            LET parsed == json_loads(data.perm_items)
            IN  CASE parsed.ok /\ parsed.shape = "list" -> parsed.items
                  [] parsed.ok /\ parsed.shape = "dict" ->
                        for_scope(parsed.scopes, parsed.resources)
                  [] OTHER -> <<>>
      [] OTHER -> <<>>

extract_permissions_no_default(data) == extracted(data)

\* _extract_permissions_from_dashboard_response
extract_permissions(data) ==
    IF extracted(data) = <<>> THEN DefaultPermissions ELSE extracted(data)

DevUserId == "00000000-0000-0000-0000-000000000001"

DevValidation ==
    TokenValidation(TRUE, DevUserId, None,
        <<"read:tools", "read:resources", "execute:mcp", "admin:all">>, None)

\* hash(token) of the running interpreter: a function of the string that is not
\* one to one; tok_b stands for a token whose hash is that of tok_a.
hash(token) ==
    CASE token = "tok_a" -> 1
      [] token = "tok_b" -> 1
      [] OTHER -> 0

\* cache_key = f"token:{hash(token)}"
cache_key(token) == <<"token", hash(token)>>

\* The keys of the TTLCache whose entries have not expired.
CacheLive(c, t) == {k \in DOMAIN c : t < c[k].expires}

cache_truthy_not_none(c, t) == TRUE

\* bool(self._token_cache): a TTLCache with no entry is false.
cache_truthy(c, t) == CacheLive(c, t) # {}

\* `if self._token_cache:` and self._token_cache.get(cache_key)
cache_hit(c, t, token) == cache_truthy(c, t) /\ cache_key(token) \in CacheLive(c, t)

\* clear_cache: `if self._token_cache:` self._token_cache.clear()
clear_cache(c, t) == IF cache_truthy(c, t) THEN EmptyDict ELSE c

cache_store_not_none(c, t, token, v) ==
    IF v.valid
    THEN DictPut(DictDrop(c, (DOMAIN c) \ CacheLive(c, t)), cache_key(token),
                 [validation |-> v, expires |-> t + cache_ttl_seconds])
    ELSE c

cache_store_always(c, t, token, v) ==
    DictPut(DictDrop(c, (DOMAIN c) \ CacheLive(c, t)), cache_key(token),
            [validation |-> v, expires |-> t + cache_ttl_seconds])

\* `if self._token_cache and validation.valid:` self._token_cache[cache_key] = validation
cache_store(c, t, token, v) ==
    IF cache_truthy(c, t) /\ v.valid
    THEN DictPut(DictDrop(c, (DOMAIN c) \ CacheLive(c, t)), cache_key(token),
                 [validation |-> v, expires |-> t + cache_ttl_seconds])
    ELSE c

validation_of_401_unavailable(r) ==
    CASE r.status = 200 ->
            IF r.valid /\ r.user # None
            THEN TokenValidation(TRUE, r.user, None, extract_permissions(r), None)
            ELSE TokenValidation(FALSE, None, None, <<>>, "invalid_token")
      [] r.status = 429 -> TokenValidation(FALSE, None, None, <<>>, "rate_limit_exceeded")
      [] OTHER -> TokenValidation(FALSE, None, None, <<>>, "service_unavailable")

\* validate_token, the status mapping of a response of the auth service.
validation_of(r) ==
    CASE r.status = 200 ->
            IF r.valid /\ r.user # None
            THEN TokenValidation(TRUE, r.user, None, extract_permissions(r), None)
            ELSE TokenValidation(FALSE, None, None, <<>>, "invalid_token")
      [] r.status = 401 -> TokenValidation(FALSE, None, None, <<>>, "invalid_token")
      [] r.status = 429 -> TokenValidation(FALSE, None, None, <<>>, "rate_limit_exceeded")
      [] OTHER -> TokenValidation(FALSE, None, None, <<>>, "service_unavailable")

ServiceUnavailable == TokenValidation(FALSE, None, None, <<>>, "service_unavailable")

\* validate_token, `if not token:`
MissingToken == TokenValidation(FALSE, None, None, <<>>, "missing_token")

\* An exception that leaves validate_token.
Raised == TokenValidation(FALSE, None, None, <<>>, "raised")

\* `except httpx.RequestError` of _call_auth_service: httpx.TimeoutException is one.
network_error(r) == r.kind \in {"request_error", "timeout"}

\* The exception met in the try block of validate_token on reply r, None if none:
\* the one _call_auth_service re-raises, or the one response.json() raises.
reply_exception(r) ==
    CASE network_error(r) -> r.kind
      [] r.kind = "malformed" /\ r.status = 200 -> "decode_error"
      [] OTHER -> None

caught_httpx_only(exc) == exc \in {"request_error", "timeout"}

\* except httpx.TimeoutException / except httpx.RequestError / except Exception
caught(exc) == TRUE

\* What validate_token returns on the reply that ends _call_auth_service.
validate_result(r) ==
    IF reply_exception(r) # None
    THEN IF caught(reply_exception(r)) THEN ServiceUnavailable ELSE Raised
    ELSE validation_of(r)

\* `if not token:` in validate_token
not_token_none_only(tok) == tok = None

not_token(tok) == tok = None \/ tok = ""

\* get_user_context, from the return of validate_token on.
user_context_of(v) ==
    IF ~v.valid \/ v.user_id = None
    THEN NoUser
    ELSE UserContext(v.user_id, v.tenant_id, v.permissions,
                     IF v.rate_limit = 0 THEN default_rate_limit ELSE v.rate_limit)

\* int(time.time() / 3600)
HourBucket(t) == t \div SecondsPerHour

admits_at_limit(count, limit) == count <= limit

\* current_count >= user_context.rate_limit is false
admits(count, limit) == count < limit

\* AuthConfig.enable_rate_limiting
enable_rate_limiting == TRUE

\* check_rate_limit: what it returns.
check_rate_limit(rl, u, t) ==
    \/ ~enable_rate_limiting
    \/ admits(DictGet(DictGet(rl, u.user_id, EmptyDict), HourBucket(t), 0), u.rate_limit)

check_rate_limit_state_counts_all(rl, u, t) ==
    LET user_limits == DictGet(rl, u.user_id, EmptyDict)
        current_count == DictGet(user_limits, HourBucket(t), 0)
        counted == DictPut(user_limits, HourBucket(t), current_count + 1)
        old_buckets == {k \in DOMAIN counted : k < HourBucket(t) - 1}
    IN  IF ~enable_rate_limiting
        THEN rl
        ELSE DictPut(rl, u.user_id, DictDrop(counted, old_buckets))

\* check_rate_limit: self._rate_limits after the call.
check_rate_limit_state(rl, u, t) ==
    LET user_limits == DictGet(rl, u.user_id, EmptyDict)
        current_count == DictGet(user_limits, HourBucket(t), 0)
        counted == DictPut(user_limits, HourBucket(t), current_count + 1)
        old_buckets == {k \in DOMAIN counted : k < HourBucket(t) - 1}
    IN  CASE ~enable_rate_limiting -> rl
          [] admits(current_count, u.rate_limit) ->
                DictPut(rl, u.user_id, DictDrop(counted, old_buckets))
          [] OTHER -> DictPut(rl, u.user_id, user_limits)

\* get_rate_limit_info: the RateLimitInfo it returns.
get_rate_limit_info(rl, u, t) ==
    LET current_count == DictGet(DictGet(rl, u.user_id, EmptyDict), HourBucket(t), 0)
    IN  [limit |-> u.rate_limit,
         remaining |-> IF u.rate_limit - current_count > 0
                       THEN u.rate_limit - current_count ELSE 0,
         reset_time |-> (HourBucket(t) + 1) * SecondsPerHour,
         window_seconds |-> SecondsPerHour]

\* get_rate_limit_info: self._rate_limits after the call.
get_rate_limit_info_state(rl, u, t) == rl

\* The history after check_rate_limit returned ok for user u at time t.
admission(a, u, t, ok) ==
    LET per_user == DictGet(a, u.user_id, EmptyDict)
    IN  IF ok
        THEN DictPut(a, u.user_id,
                     DictPut(per_user, HourBucket(t), DictGet(per_user, HourBucket(t), 0) + 1))
        ELSE a

\* ------------------------------------------------------------- RateLimiter

\* self.attempts[identifier] of the defaultdict(deque)
attempts_of(l, id) == DictGet(l, id, <<>>)

\* while attempts and attempts[0] < current_time - self.window_seconds: popleft()
RECURSIVE evict(_, _)
evict(attempts, t) ==
    IF attempts # <<>> /\ Head(attempts) < t - window_seconds
    THEN evict(Tail(attempts), t)
    ELSE attempts

under_limit_inclusive(n) == n <= max_attempts

\* len(attempts) >= self.max_attempts is false
under_limit(n) == n < max_attempts

\* is_allowed: what it returns.
is_allowed(l, id, t) == under_limit(Len(evict(attempts_of(l, id), t)))

\* is_allowed: self.attempts after the call.
is_allowed_state(l, id, t) ==
    LET attempts == evict(attempts_of(l, id), t)
    IN  DictPut(l, id, IF under_limit(Len(attempts)) THEN Append(attempts, t) ELSE attempts)

\* record_failed_attempt: self.attempts after the call.
record_failed_attempt_state(l, id, t) == DictPut(l, id, Append(attempts_of(l, id), t))

\* get_remaining_attempts: what it returns.
get_remaining_attempts(l, id, t) ==
    LET left == max_attempts - Len(evict(attempts_of(l, id), t))
    IN  IF left > 0 THEN left ELSE 0

\* get_remaining_attempts: self.attempts after the call.
get_remaining_attempts_state(l, id, t) == DictPut(l, id, evict(attempts_of(l, id), t))

\* get_reset_time: what it returns, NoTime for None.
get_reset_time(l, id) ==
    LET attempts == attempts_of(l, id)
    IN  IF attempts = <<>> \/ Len(attempts) < max_attempts
        THEN NoTime
        ELSE Head(attempts) + window_seconds

\* get_reset_time: self.attempts after the call.
get_reset_time_state(l, id) == DictPut(l, id, attempts_of(l, id))

\* ------------------------------------------------------- handle_mcp_request

RequestId == "mcp_req"

validate_tenant_access_always(u) == TRUE

\* TenantContextValidator.validate_tenant_access
validate_tenant_access(u) == u.tenant_id # None

\* TenantContextValidator.validate_mcp_permission
validate_mcp_permission(u) ==
    Range(u.permissions) \cap {"mcp:read", "mcp:execute", "mcp:admin"} # {}

\* Methods that are empty once stripped of whitespace.
BlankMethods == {"", "  "}

validate_mcp_message_any(req) == TRUE

\* validate_mcp_message on the message the handler builds (method, id, params all set).
validate_mcp_message(req) == req.method \notin BlankMethods

validate_request_size_strict(req) == req.size < max_size_bytes

\* MCPRequestPreprocessor.validate_request_size
validate_request_size(req) == req.size <= max_size_bytes

\* MCPRequestPreprocessor.add_request_metadata on the dict mcp_message, objects
\* being the params mappings that exist: dict.copy() gives a dict whose "params"
\* is the same mapping as the input's, a missing "params" is set to a new
\* mapping in the copy only, and _request_metadata is written into the mapping
\* the copy refers to. Gives the dict returned and the objects after the call.
stamp_metadata(objects, mcp_message, u) ==
    LET processed_message ==
            IF mcp_message.has_params THEN mcp_message
            ELSE [mcp_message EXCEPT !.has_params = TRUE, !.params = Len(objects) + 1]
        with_params ==
            IF mcp_message.has_params THEN objects ELSE Append(objects, EmptyParams)
    IN  [processed_message |-> processed_message,
         objects |-> [with_params EXCEPT ![processed_message.params].request_metadata =
                         Metadata(TRUE, u.user_id, u.tenant_id)]]

\* An mcp_message dict as it reads, given the objects.
read_message(objects, mcp_message) ==
    MessageValue(mcp_message.id, mcp_message.method, mcp_message.has_params,
                 IF mcp_message.has_params THEN objects[mcp_message.params]
                 ELSE EmptyParams)

\* What forward_mcp_request is given for a stamped message.
forwarded_message(value) ==
    [id |-> value.id, method |-> value.method,
     stamped |-> value.params.request_metadata.present,
     meta_user_id |-> value.params.request_metadata.user_id,
     meta_tenant_id |-> value.params.request_metadata.tenant_id,
     public_server |-> value.params.request_metadata.public_server]

add_request_metadata_keeps_callers(req, u) ==
    IF req.params.request_metadata.present
    THEN forwarded_message(MessageValue(req.id, req.method, TRUE, req.params))
    ELSE LET call == stamp_metadata(<<req.params>>, McpMessage(req.id, req.method, TRUE, 1), u)
         IN  forwarded_message(read_message(call.objects, call.processed_message))

\* MCPRequestPreprocessor.add_request_metadata as handle_mcp_request calls it:
\* on the mcp_message built from the request, "params" being request.params or {}.
add_request_metadata(req, u) ==
    LET call == stamp_metadata(<<req.params>>, McpMessage(req.id, req.method, TRUE, 1), u)
    IN  forwarded_message(read_message(call.objects, call.processed_message))

is_notification_by_method(req) ==
    req.id = None /\ req.method = "notifications/initialized"

\* is_notification = request.id is None
is_notification(req) == req.id = None

\* The step of a task that ends with an answer to its caller.
Answer(tk, r) == [tk EXCEPT !.pc = "done", !.resp = r]

\* handle_mcp_request, up to the GET of the health check it awaits.
handler_enter(tk, sess) ==
    LET tk1 == [tk EXCEPT !.handler_ran = TRUE]
        u == tk.user
        req == tk.req
    IN  CASE is_notification(req) -> Answer(tk1, EmptyResponse(204))
          [] ~validate_tenant_access(u) ->
                Answer(tk1, MCPErrorResponse(req.id,
                    Error(-32002, "Tenant access required for MCP operations", "")))
          [] ~validate_mcp_permission(u) ->
                Answer(tk1, MCPErrorResponse(req.id,
                    Error(-32002, "Insufficient permissions for MCP operations", "")))
          [] ~validate_mcp_message(req) ->
                Answer(tk1, MCPErrorResponse(req.id,
                    Error(-32602, "Invalid request", "Method must be a non-empty string")))
          [] ~validate_request_size(req) ->
                Answer(tk1, MCPErrorResponse(req.id, Error(-32602, "Request too large", "")))
          [] ~sess ->
                Answer([tk1 EXCEPT !.hc = "not_started"],
                       MCPErrorResponse(req.id,
                           Error(-32603, "Gateway service unavailable", "")))
          [] OTHER -> [tk1 EXCEPT !.pc = "health"]

\* ------------------------------------------------------ AuthMiddleware

PublicPaths == {"/health", "/docs", "/redoc", "/openapi.json", "/", "/favicon.ico"}

\* _extract_token: the header with "Bearer " removed, None without a header.
extract_token(h) ==
    IF ~h.present \/ (~h.bearer /\ h.rest = "") THEN None ELSE h.rest

\* `not token`
token_missing(tok) == tok = None \/ tok = ""

\* The route of the request: get_current_user, then the handler of the path
\* with the body req, which FastAPI reads for it.
route(tk, req, sess) ==
    IF tk.path = "/v1/mcp" /\ tk.method = "POST"
    THEN IF ~tk.user.present
         THEN Answer(tk, HttpResponse(401))
         ELSE handler_enter([tk EXCEPT !.req = req], sess)
    ELSE IF tk.path = "/v1/mcp"
         THEN Answer(tk, HttpResponse(405))
         ELSE Answer(tk, HttpResponse(200))

failure_status_by_kind(v) ==
    IF v.error \in {"raised", "service_unavailable"} THEN 503 ELSE 401

\* dispatch, when get_user_context gave no user: the exception it raised is
\* answered by _service_error_response, the None it returned by _auth_error_response.
failure_status(v) == IF v = Raised THEN 503 ELSE 401

after_validation_lost_update(tk, v, req, rl, sess, t) ==
    LET u == user_context_of(v)
        tk1 == [tk EXCEPT !.validation = v, !.user = u]
    IN  IF ~u.present
        THEN [tk |-> Answer(tk1, HttpResponse(failure_status(v))), rate_limits |-> rl]
        ELSE LET tk2 == [tk1 EXCEPT
                            !.rl_checked = TRUE,
                            !.rl_count = DictGet(DictGet(rl, u.user_id, EmptyDict),
                                                 HourBucket(t), 0)]
             IN  IF ~check_rate_limit(rl, u, t)
                 THEN [tk |-> Answer(tk2, HttpResponse(429)),
                       rate_limits |-> check_rate_limit_state(rl, u, t)]
                 ELSE [tk |-> route(tk2, req, sess), rate_limits |-> rl]

\* dispatch, from the return of validate_token in get_user_context on.
\* The task and self._rate_limits it leaves.
after_validation(tk, v, req, rl, sess, t) ==
    LET u == user_context_of(v)
        tk1 == [tk EXCEPT !.validation = v, !.user = u]
    IN  IF ~u.present
        THEN [tk |-> Answer(tk1, HttpResponse(failure_status(v))), rate_limits |-> rl]
        ELSE LET tk2 == [tk1 EXCEPT
                            !.rl_checked = TRUE,
                            !.rl_count = DictGet(DictGet(rl, u.user_id, EmptyDict),
                                                 HourBucket(t), 0)]
             IN  IF ~check_rate_limit(rl, u, t)
                 THEN [tk |-> Answer(tk2, HttpResponse(429)),
                       rate_limits |-> check_rate_limit_state(rl, u, t)]
                 ELSE [tk |-> route(tk2, req, sess),
                       rate_limits |-> check_rate_limit_state(rl, u, t)]

\* dispatch, up to the POST to the auth service that validate_token awaits.
\* ac: `self.auth_client or await get_auth_client()` gives the client or raises.
dispatch_enter(tk0, h, req, c, rl, sess, t, ac) ==
    LET tok == extract_token(h)
        tk == [tk0 EXCEPT !.token = tok, !.auth_client = ac]
    IN  CASE tk0.path \in PublicPaths \/ tk0.method = "OPTIONS" ->
                [tk |-> route(tk0, req, sess), rate_limits |-> rl]
          [] ac = "raises" ->
                [tk |-> Answer([tk0 EXCEPT !.auth_client = ac], HttpResponse(503)),
                 rate_limits |-> rl]
          [] token_missing(tok) ->
                [tk |-> Answer(tk, HttpResponse(401)), rate_limits |-> rl]
          [] tok = "dev_test123" ->
                after_validation(tk, DevValidation, req, rl, sess, t)
          [] cache_hit(c, t, tok) ->
                after_validation(tk, c[cache_key(tok)].validation, req, rl, sess, t)
          [] OTHER ->
                [tk |-> [tk EXCEPT !.pc = "auth_post", !.auth_calls = @ + 1],
                 rate_limits |-> rl]

\* get_user_context returns to its caller.
validate_return(tk, v) ==
    [tk EXCEPT !.pc = "done", !.validation = v, !.user = user_context_of(v)]

\* get_user_context(tok), up to the POST to the auth service that validate_token awaits.
validate_enter(tk0, tok, c, t) ==
    LET tk == [tk0 EXCEPT !.token = tok]
    IN  CASE not_token(tok) -> validate_return(tk, MissingToken)
          [] tok = "dev_test123" -> validate_return(tk, DevValidation)
          [] cache_hit(c, t, tok) -> validate_return(tk, c[cache_key(tok)].validation)
          [] OTHER -> [tk EXCEPT !.pc = "auth_post", !.auth_calls = @ + 1]

\* validate_token returns v: to get_user_context called on its own, or to dispatch.
validation_return(tk, v, req, rl, sess, t) ==
    IF tk.entry = "validate"
    THEN [tk |-> validate_return(tk, v), rate_limits |-> rl]
    ELSE after_validation(tk, v, req, rl, sess, t)

\* The history of a token after a call for it returned v at time t: the first
\* successful validation of the last cache_ttl_seconds, else the last validation.
remember(h, tok, v, t) ==
    IF /\ v.valid
       /\ tok \in DOMAIN h
       /\ h[tok].validation.valid
       /\ t - h[tok].at < cache_ttl_seconds
    THEN h
    ELSE DictPut(h, tok, [validation |-> v, at |-> t])

\* attempt < self.config.retry_attempts - 1, in _call_auth_service
auth_should_retry(attempt) == attempt < auth_retry_attempts - 1

\* ------------------------------------------------- Server (protocol.py)

\* The methods handle_message has a branch for.
Routes == {"list_resources", "get_resource", "list_tools", "call_tool"}

\* The result a branch builds from what its handler returned.
result_of(method) ==
    CASE method = "list_resources" -> "resources"
      [] method = "list_tools" -> "tools"
      [] OTHER -> "content"

handle_message_any_type(handlers, message, raises) ==
    CASE message.method \in Routes /\ message.method \notin handlers ->
            ServerResult(message.id, None)
      [] message.method \in Routes /\ raises ->
            ServerError(message.id, -32603, "Internal error")
      [] message.method \in Routes -> ServerResult(message.id, result_of(message.method))
      [] OTHER -> ServerError(message.id, -32601, "Method not found")

\* Server.handle_message on a Server with these handlers registered; raises: the
\* handler called, if one is, raises.
handle_message(handlers, message, raises) ==
    CASE message.type # "request" -> NoServerResponse
      [] message.method \in Routes /\ message.method \notin handlers ->
            ServerResult(message.id, None)
      [] message.method \in Routes /\ raises ->
            ServerError(message.id, -32603, "Internal error")
      [] message.method \in Routes -> ServerResult(message.id, result_of(message.method))
      [] OTHER -> ServerError(message.id, -32601, "Method not found")

\* ---------------------------------------------------- claude-desktop-proxy

\* A line of standard input: blank, the text of a JSON object with its "id"
\* (None where it has none) and "method", or a text that is no JSON.
Line(text, i, m) == [text |-> text, id |-> i, method |-> m]

NoLine == Line("blank", None, "")

\* A line printed to standard output: a JSON-RPC object with its id, "result" or
\* "error", and the error's code.
StdoutLine(i, k, c) == [id |-> i, kind |-> k, code |-> c]

\* proxy_request before its first line; response is the local of the last iteration.
ProxyInit == [pc |-> "reading", request |-> NoLine, response |-> NoResponse]

\* session.post raised (connection error, timeout).
PostFailure == [NoResponse EXCEPT !.kind = "failure"]

\* What the endpoint answers to the posted object: to a notification 204 (or the
\* middleware's 401), to a request a result or an error with its id, a body that
\* is no JSON, or an HTTP error.
ProxyReplies(request) ==
    IF request.id = None
    THEN { EmptyResponse(204), HttpResponse(401), PostFailure }
    ELSE { MCPSuccessResponse(request.id, "{}"),
           MCPErrorResponse(request.id, Error(-32601, "Method not found", "")),
           HttpResponse(200), HttpResponse(401), HttpResponse(503), PostFailure }

\* response.json() of a body that is no JSON raises requests' JSONDecodeError,
\* which is a json.JSONDecodeError (-32700) or only a ValueError (-32603)
\* depending on the installed requests and simplejson.
ResponseJsonErrors == {-32700, -32603}

\* The lines one iteration can print once session.post returned or raised.
printed(request, response) ==
    CASE response.kind = "failure" -> { StdoutLine(None, "error", -32603) }
      [] response.status = 200 /\ response.kind = "http" ->
            { StdoutLine(None, "error", c) : c \in ResponseJsonErrors }
      [] response.status = 200 ->
            { StdoutLine(response.id, response.kind, response.error.code) }
      [] OTHER -> { StdoutLine(request.id, "error", response.status) }

\* ---------------------------------------------------------------- actions

\* get_environment(): what MESHAI_ENVIRONMENT names.
Environments == {"development", "production"}

\* is_production()
is_production(env) == env = "production"

Init ==
    /\ now = 0
    /\ ticks = 0
    /\ started = 0
    /\ lifecycle = 0
    /\ session = FALSE
    /\ cb = CircuitBreakerInit
    /\ stats = StatsInit
    /\ streak = 0
    /\ token_cache = EmptyDict
    /\ rate_limits = EmptyDict
    /\ validated = EmptyDict
    /\ admitted = EmptyDict
    /\ limiter = EmptyDict
    /\ environment \in Environments
    /\ stdin = <<>>
    /\ stdout = <<>>
    /\ proxy = ProxyInit
    /\ task = [t \in Tasks |-> IdleTask]

\* An answer is handed to its caller in the step after the one that made it:
\* no task holds an answer.
NoAnswerPending == \A t \in Tasks : task[t].pc # "done"

\* A step of task t leaves world w.
Leaves(t, w) ==
    /\ task' = [task EXCEPT ![t] = w.tk]
    /\ cb' = w.cb
    /\ stats' = w.stats
    /\ streak' = w.streak

\* Users a caller of forward_mcp_request passes.
ForwardUsers ==
    { UserContext("U1", "T1", <<"mcp:execute">>, default_rate_limit) }

ForwardMessage(u) ==
    [id |-> "1", method |-> "list_tools", stamped |-> TRUE, meta_user_id |-> u.user_id,
     meta_tenant_id |-> u.tenant_id, public_server |-> TRUE]

\* A caller awaits forward_mcp_request(user, mcp_message, request_id).
CallForward(t) ==
    /\ NoAnswerPending
    /\ task[t].pc = "idle"
    /\ started < MaxForwardCalls
    /\ \E u \in ForwardUsers :
          Leaves(t, forward_enter([IdleTask EXCEPT !.entry = "forward", !.user = u],
                                  ForwardMessage(u), cb, stats, streak, session, now))
    /\ started' = started + 1
    /\ UNCHANGED <<stdin, stdout, proxy, environment, admitted, limiter, validated, now, ticks, lifecycle, session, token_cache, rate_limits>>

\* The POST of task t to the gateway completes with reply r.
GatewayReply(t) ==
    /\ NoAnswerPending
    /\ task[t].pc = "gw_post"
    /\ \E r \in GatewayReplies :
          IF ReplyRaises(r)
          THEN LET w == attempt_raised(task[t], cb, stats, streak, now, ReplyErrorKind(r))
               IN  Leaves(t, IF w.tk.pc = "done" THEN [w EXCEPT !.tk.gw_reply = r] ELSE w)
          ELSE Leaves(t, forward_succeeded([task[t] EXCEPT !.gw_reply = r],
                                           cb, stats, streak, Translate(r)))
    /\ UNCHANGED <<stdin, stdout, proxy, environment, admitted, limiter, validated, now, ticks, started, lifecycle, session, token_cache, rate_limits>>

\* asyncio.sleep(delay) of task t returns: the next attempt of the loop.
GatewayBackoffOver(t) ==
    /\ NoAnswerPending
    /\ task[t].pc = "gw_sleep"
    /\ Leaves(t, execute_attempt([task[t] EXCEPT !.attempt = @ + 1],
                                 cb, stats, streak, session, now))
    /\ UNCHANGED <<stdin, stdout, proxy, environment, admitted, limiter, validated, now, ticks, started, lifecycle, session, token_cache, rate_limits>>

\* The caller of task t has its answer.
Finish(t) ==
    /\ task[t].pc = "done"
    /\ task' = [task EXCEPT ![t] = IdleTask]
    /\ UNCHANGED <<stdin, stdout, proxy, environment, admitted, limiter, validated, now, ticks, started, lifecycle, session, cb, stats, streak, token_cache, rate_limits>>

\* TenantGatewayClient.start
ClientStart ==
    /\ NoAnswerPending
    /\ lifecycle < MaxLifecycleOps
    /\ ~session
    /\ session' = TRUE
    /\ lifecycle' = lifecycle + 1
    /\ UNCHANGED <<stdin, stdout, proxy, environment, admitted, limiter, validated, now, ticks, started, cb, stats, streak, token_cache, rate_limits, task>>

\* TenantGatewayClient.stop
ClientStop ==
    /\ NoAnswerPending
    /\ lifecycle < MaxLifecycleOps
    /\ session
    /\ session' = FALSE
    /\ lifecycle' = lifecycle + 1
    /\ UNCHANGED <<stdin, stdout, proxy, environment, admitted, limiter, validated, now, ticks, started, cb, stats, streak, token_cache, rate_limits, task>>

\* Time passes.
Tick ==
    /\ NoAnswerPending
    /\ ticks < MaxTicks
    /\ \E d \in TickSteps : now' = now + d
    /\ ticks' = ticks + 1
    /\ UNCHANGED <<stdin, stdout, proxy, environment, admitted, limiter, validated, started, lifecycle, session, cb, stats, streak, token_cache, rate_limits, task>>

\* ------------------------------------------------------ the HTTP endpoint

\* The path and method of a request.
HttpTargets == { <<"/v1/mcp", "POST">>, <<"/v1/mcp", "OPTIONS">>, <<"/health", "GET">> }

\* Authorization headers: none, "Bearer ", "Bearer tok_a", "tok_a", "Bearer dev_test123".
Headers ==
    { NoHeader,
      [present |-> TRUE, bearer |-> TRUE, rest |-> ""],
      [present |-> TRUE, bearer |-> TRUE, rest |-> "tok_a"],
      [present |-> TRUE, bearer |-> FALSE, rest |-> "tok_a"],
      [present |-> TRUE, bearer |-> TRUE, rest |-> "dev_test123"] }

\* Params in which the caller wrote a _request_metadata of its own: the request
\* that passes every check carries them.
SpoofedParams == Params({"name"}, Metadata(FALSE, "U2", "T2"))

\* Bodies of POST /v1/mcp.
Requests ==
    { [method |-> "list_tools", id |-> "1", size |-> max_size_bytes, params |-> SpoofedParams],
      [method |-> "notifications/initialized", id |-> None, size |-> 64, params |-> EmptyParams],
      [method |-> "list_tools", id |-> None, size |-> 64, params |-> EmptyParams],
      [method |-> "  ", id |-> "1", size |-> 64, params |-> EmptyParams],
      [method |-> "list_tools", id |-> "2", size |-> max_size_bytes + 1,
       params |-> EmptyParams] }

\* Users that get_current_user hands to handle_mcp_request called on its own.
HandlerUsers ==
    { UserContext("U1", "T1", <<"mcp:execute">>, default_rate_limit),
      UserContext("U1", "T1", DefaultPermissions, default_rate_limit),
      UserContext("U1", None, <<"mcp:execute">>, default_rate_limit) }

\* What the GET of health_check finds.
HealthOutcomes == {"healthy", "unhealthy", "error"}

\* Obtaining the auth client in dispatch, "ok" or "raises": create_http_app hands
\* the middleware the AuthClient it built, so `self.auth_client or ...` is that
\* client and get_auth_client is not called.
AuthClientOutcomes == {"ok"}

\* An HTTP request arrives: AuthMiddleware.dispatch runs.  req is the body, which
\* is read only once the route is reached.
StartHttp(t) ==
    /\ NoAnswerPending
    /\ task[t].pc = "idle"
    /\ started < MaxRequests
    /\ \E target \in HttpTargets, h \in Headers, req \in Requests, ac \in AuthClientOutcomes :
          LET tk == [IdleTask EXCEPT !.entry = "http", !.path = target[1],
                                     !.method = target[2]]
              w == dispatch_enter(tk, h, req, token_cache, rate_limits, session, now, ac)
          IN  /\ task' = [task EXCEPT ![t] = w.tk]
              /\ rate_limits' = w.rate_limits
              /\ admitted' = IF w.tk.rl_checked
                             THEN admission(admitted, w.tk.user, now,
                                            check_rate_limit(rate_limits, w.tk.user, now))
                             ELSE admitted
    /\ started' = started + 1
    /\ UNCHANGED <<stdin, stdout, proxy, environment, limiter, validated, now, ticks, lifecycle, session, cb, stats, streak, token_cache>>

\* handle_mcp_request is called with the user of its dependency.
CallHandler(t) ==
    /\ NoAnswerPending
    /\ task[t].pc = "idle"
    /\ started < MaxRequests
    /\ \E u \in HandlerUsers, req \in Requests :
          task' = [task EXCEPT ![t] =
                      handler_enter([IdleTask EXCEPT !.entry = "handler", !.user = u,
                                                     !.req = req], session)]
    /\ started' = started + 1
    /\ UNCHANGED <<stdin, stdout, proxy, environment, admitted, limiter, validated, now, ticks, lifecycle, session, cb, stats, streak, token_cache, rate_limits>>

\* The POST of task t to the auth service completes with reply r.
AuthReply(t) ==
    /\ NoAnswerPending
    /\ task[t].pc = "auth_post"
    /\ \E r \in AuthReplies,
          req \in IF task[t].entry = "http" THEN Requests ELSE {NoRequest} :
          IF network_error(r) /\ auth_should_retry(task[t].auth_attempt)
          THEN /\ task' = [task EXCEPT ![t].pc = "auth_sleep", ![t].auth_errors = @ + 1]
               /\ UNCHANGED <<token_cache, rate_limits, validated, admitted>>
          ELSE LET v == validate_result(r)
                   tok == task[t].token
                   tk == IF network_error(r)
                         THEN [task[t] EXCEPT !.auth_errors = @ + 1]
                         ELSE [task[t] EXCEPT !.auth_reply = r]
                   w == validation_return(tk, v, req, rate_limits, session, now)
               IN  /\ token_cache' = IF r.kind = "response" /\ r.status = 200
                                     THEN cache_store(token_cache, now, tok, v)
                                     ELSE token_cache
                   /\ task' = [task EXCEPT ![t] = w.tk]
                   /\ rate_limits' = w.rate_limits
                   /\ admitted' = IF w.tk.rl_checked
                                  THEN admission(admitted, w.tk.user, now,
                                                 check_rate_limit(rate_limits, w.tk.user, now))
                                  ELSE admitted
                   /\ validated' = IF tk.entry = "validate"
                                   THEN remember(validated, tok, v, now)
                                   ELSE validated
    /\ UNCHANGED <<stdin, stdout, proxy, environment, limiter, now, ticks, started, lifecycle, session, cb, stats, streak>>

\* asyncio.sleep(delay) in _call_auth_service returns: the next attempt.
AuthBackoffOver(t) ==
    /\ NoAnswerPending
    /\ task[t].pc = "auth_sleep"
    /\ task' = [task EXCEPT ![t].pc = "auth_post",
                            ![t].auth_attempt = @ + 1,
                            ![t].auth_calls = @ + 1]
    /\ UNCHANGED <<stdin, stdout, proxy, environment, admitted, limiter, validated, now, ticks, started, lifecycle, session, cb, stats, streak,
                   token_cache, rate_limits>>

HealthReply_records_failure(t) ==
    /\ NoAnswerPending
    /\ task[t].pc = "health"
    /\ \E h \in HealthOutcomes :
          LET tk == [task[t] EXCEPT !.hc = h]
          IN  IF h = "healthy"
              THEN Leaves(t, forward_enter(tk, add_request_metadata(tk.req, tk.user),
                                           cb, stats, streak, session, now))
              ELSE Leaves(t, World(Answer(tk, MCPErrorResponse(tk.req.id,
                                        Error(-32603, "Gateway service unavailable", ""))),
                                   record_failure(cb, now), stats, streak))
    /\ UNCHANGED <<stdin, stdout, proxy, environment, admitted, limiter, validated, now, ticks, started, lifecycle, session, token_cache, rate_limits>>

\* The GET of health_check of task t completes; the handler goes on.
HealthReply(t) ==
    /\ NoAnswerPending
    /\ task[t].pc = "health"
    /\ \E h \in HealthOutcomes :
          LET tk == [task[t] EXCEPT !.hc = h]
          IN  IF h = "healthy"
              THEN Leaves(t, forward_enter(tk, add_request_metadata(tk.req, tk.user),
                                           cb, stats, streak, session, now))
              ELSE Leaves(t, World(Answer(tk, MCPErrorResponse(tk.req.id,
                                        Error(-32603, "Gateway service unavailable", ""))),
                                   cb, stats, streak))
    /\ UNCHANGED <<stdin, stdout, proxy, environment, admitted, limiter, validated, now, ticks, started, lifecycle, session, token_cache, rate_limits>>

Next ==
    \/ \E t \in Tasks : StartHttp(t)
    \/ \E t \in Tasks : CallHandler(t)
    \/ \E t \in Tasks : AuthReply(t)
    \/ \E t \in Tasks : AuthBackoffOver(t)
    \/ \E t \in Tasks : HealthReply(t)
    \/ \E t \in Tasks : GatewayReply(t)
    \/ \E t \in Tasks : GatewayBackoffOver(t)
    \/ \E t \in Tasks : Finish(t)
    \/ ClientStart
    \/ ClientStop
    \/ Tick

\* The HTTP endpoint, and handle_mcp_request called on its own, under concurrent requests.
Spec == Init /\ [][Next]_vars

NextGateway ==
    \/ \E t \in Tasks : CallForward(t)
    \/ \E t \in Tasks : GatewayReply(t)
    \/ \E t \in Tasks : GatewayBackoffOver(t)
    \/ \E t \in Tasks : Finish(t)
    \/ ClientStart
    \/ ClientStop
    \/ Tick

\* Concurrent callers of forward_mcp_request on one client.
SpecGateway == Init /\ [][NextGateway]_vars

\* Tokens a caller of get_user_context passes.
Tokens == {"", "tok_a", "tok_b", "dev_test123"}

\* A caller awaits get_user_context(tok), which awaits validate_token(tok).
CallValidate(t) ==
    /\ NoAnswerPending
    /\ task[t].pc = "idle"
    /\ started < MaxValidateCalls
    /\ \E tok \in Tokens :
          LET tk == validate_enter([IdleTask EXCEPT !.entry = "validate"], tok,
                                   token_cache, now)
          IN  /\ task' = [task EXCEPT ![t] = tk]
              /\ validated' = IF tk.pc = "done"
                              THEN remember(validated, tok, tk.validation, now)
                              ELSE validated
    /\ started' = started + 1
    /\ UNCHANGED <<stdin, stdout, proxy, environment, admitted, limiter, now, ticks, lifecycle, session, cb, stats, streak, token_cache, rate_limits>>

\* AuthClient.clear_cache(); the history of validations starts anew.
ClearCache ==
    /\ NoAnswerPending
    /\ token_cache' = clear_cache(token_cache, now)
    /\ validated' = EmptyDict
    /\ UNCHANGED <<stdin, stdout, proxy, environment, admitted, limiter, now, ticks, started, lifecycle,
                   session, cb, stats, streak, rate_limits, task>>

NextAuth ==
    \/ \E t \in Tasks : CallValidate(t)
    \/ ClearCache
    \/ \E t \in Tasks : AuthReply(t)
    \/ \E t \in Tasks : AuthBackoffOver(t)
    \/ \E t \in Tasks : Finish(t)
    \/ Tick

\* Concurrent callers of get_user_context on one AuthClient.
SpecAuth == Init /\ [][NextAuth]_vars

\* Users a caller of check_rate_limit passes: rate_limit = N.
RateLimitUsers ==
    { UserContext("U1", "T1", <<"mcp:execute">>, default_rate_limit),
      UserContext("U2", "T1", <<"mcp:execute">>, 1) }

\* A caller calls check_rate_limit(u): no await, one step.
CallCheckRateLimit(t) ==
    /\ NoAnswerPending
    /\ task[t].pc = "idle"
    /\ started < MaxRateCalls
    /\ \E u \in RateLimitUsers :
          /\ task' = [task EXCEPT ![t] =
                         [IdleTask EXCEPT !.entry = "check_rate_limit", !.pc = "done",
                                          !.user = u,
                                          !.allowed = check_rate_limit(rate_limits, u, now)]]
          /\ rate_limits' = check_rate_limit_state(rate_limits, u, now)
          /\ admitted' = admission(admitted, u, now, check_rate_limit(rate_limits, u, now))
    /\ started' = started + 1
    /\ UNCHANGED <<stdin, stdout, proxy, environment, limiter, validated, now, ticks, lifecycle, session, cb, stats, streak,
                   token_cache>>

\* A caller calls get_rate_limit_info(u).
CallRateLimitInfo(t) ==
    /\ NoAnswerPending
    /\ task[t].pc = "idle"
    /\ started < MaxRateCalls
    /\ \E u \in RateLimitUsers :
          /\ task' = [task EXCEPT ![t] =
                         [IdleTask EXCEPT !.entry = "get_rate_limit_info", !.pc = "done",
                                          !.user = u,
                                          !.rate_info = get_rate_limit_info(rate_limits, u, now)]]
          /\ rate_limits' = get_rate_limit_info_state(rate_limits, u, now)
    /\ started' = started + 1
    /\ UNCHANGED <<stdin, stdout, proxy, environment, admitted, limiter, validated, now, ticks, lifecycle, session, cb, stats,
                   streak, token_cache>>

\* Time passes between the calls: within the hour, into the next, beyond it.
TickHour ==
    /\ NoAnswerPending
    /\ ticks < MaxHourTicks
    /\ \E d \in {SecondsPerHour \div 2, SecondsPerHour, 2 * SecondsPerHour} : now' = now + d
    /\ ticks' = ticks + 1
    /\ UNCHANGED <<stdin, stdout, proxy, environment, admitted, limiter, validated, started, lifecycle, session, cb, stats, streak,
                   token_cache, rate_limits, task>>

NextRateLimit ==
    \/ \E t \in Tasks : CallCheckRateLimit(t)
    \/ \E t \in Tasks : CallRateLimitInfo(t)
    \/ \E t \in Tasks : Finish(t)
    \/ TickHour

\* Callers of check_rate_limit and get_rate_limit_info on one AuthClient.
SpecRateLimit == Init /\ [][NextRateLimit]_vars

\* Identifiers a caller of the RateLimiter passes.
Identifiers == {"ip_a", "ip_b"}

\* A call of a method of the RateLimiter by task t returned: no await, one step.
LimiterCall(t, op, id, ok, n) ==
    task' = [task EXCEPT ![t] = [IdleTask EXCEPT !.entry = op, !.pc = "done",
                                                 !.identifier = id, !.allowed = ok,
                                                 !.number = n]]

\* The part of a call of the RateLimiter that all four methods share.
LimiterCalled(t) ==
    /\ NoAnswerPending
    /\ task[t].pc = "idle"
    /\ started < MaxLimiterCalls
    /\ started' = started + 1
    /\ UNCHANGED <<stdin, stdout, proxy, environment, admitted, validated, now, ticks, lifecycle, session, cb, stats, streak,
                   token_cache, rate_limits>>

CallIsAllowed(t) ==
    /\ LimiterCalled(t)
    /\ \E id \in Identifiers :
          /\ LimiterCall(t, "is_allowed", id, is_allowed(limiter, id, now), NoTime)
          /\ limiter' = is_allowed_state(limiter, id, now)

CallRecordFailedAttempt(t) ==
    /\ LimiterCalled(t)
    /\ \E id \in Identifiers :
          /\ LimiterCall(t, "record_failed_attempt", id, FALSE, NoTime)
          /\ limiter' = record_failed_attempt_state(limiter, id, now)

CallGetRemainingAttempts(t) ==
    /\ LimiterCalled(t)
    /\ \E id \in Identifiers :
          /\ LimiterCall(t, "get_remaining_attempts", id, FALSE,
                         get_remaining_attempts(limiter, id, now))
          /\ limiter' = get_remaining_attempts_state(limiter, id, now)

CallGetResetTime(t) ==
    /\ LimiterCalled(t)
    /\ \E id \in Identifiers :
          /\ LimiterCall(t, "get_reset_time", id, FALSE, get_reset_time(limiter, id))
          /\ limiter' = get_reset_time_state(limiter, id)

\* Time passes between the calls: within the window, to its end, past it.
TickWindow ==
    /\ NoAnswerPending
    /\ ticks < MaxWindowTicks
    /\ \E d \in {1, window_seconds, window_seconds + 1} : now' = now + d
    /\ ticks' = ticks + 1
    /\ UNCHANGED <<stdin, stdout, proxy, environment, admitted, limiter, validated, started, lifecycle, session, cb, stats, streak,
                   token_cache, rate_limits, task>>

NextLimiter ==
    \/ \E t \in Tasks : CallIsAllowed(t)
    \/ \E t \in Tasks : CallRecordFailedAttempt(t)
    \/ \E t \in Tasks : CallGetRemainingAttempts(t)
    \/ \E t \in Tasks : CallGetResetTime(t)
    \/ \E t \in Tasks : Finish(t)
    \/ TickWindow

\* Callers of one RateLimiter.
SpecLimiter == Init /\ [][NextLimiter]_vars

\* The texts a "permissions" string holds: the two shapes with and without
\* content, keys in either order, a repeated key, one string, and texts that
\* are no JSON (empty, unclosed, a trailing comma, plain words).
JsonTexts ==
    { <<"[", "mcp:execute", "]">>,
      <<"[", "read:tools", ",", "mcp:execute", "]">>,
      <<"[", "]">>,
      <<"{", "scopes", ":", "[", "read", ",", "write", "]", ",",
             "resources", ":", "[", "agents", ",", "tasks", "]", "}">>,
      <<"{", "resources", ":", "[", "agents", "]", ",",
             "scopes", ":", "[", "read", ",", "write", "]", "}">>,
      <<"{", "scopes", ":", "[", "read", "]", ",",
             "scopes", ":", "[", "write", "]", ",",
             "resources", ":", "[", "tasks", "]", "}">>,
      <<"{", "scopes", ":", "[", "read", "]", "}">>,
      <<"{", "}">>,
      <<"mcp:execute">>,
      <<>>,
      <<"[", "mcp:execute">>,
      <<"[", "mcp:execute", ",", "]">>,
      <<"{", "scopes", ":", "[", "read", "]">>,
      <<"read,write">> }

\* The bodies _extract_permissions_from_dashboard_response is given.
PermissionsInputs ==
    { PermissionsData("absent", <<>>, <<>>, <<>>),
      PermissionsData("other", <<>>, <<>>, <<>>) }
    \cup { PermissionsData("list", items, <<>>, <<>>) :
             items \in { <<>>, <<"mcp:execute">>, <<"admin:all">>,
                        <<"read:tools", "mcp:execute">> } }
    \cup { PermissionsData("dict", <<>>, scopes, resources) :
             scopes \in { <<>>, <<"read">>, <<"read", "write">> },
             resources \in { <<>>, <<"agents", "tasks">> } }
    \cup { PermissionsData("str", text, <<>>, <<>>) : text \in JsonTexts }

\* A caller calls _extract_permissions_from_dashboard_response(data): no await,
\* one step.
CallExtractPermissions(t) ==
    /\ NoAnswerPending
    /\ task[t].pc = "idle"
    /\ \E data \in PermissionsInputs :
          task' = [task EXCEPT ![t] =
                      [IdleTask EXCEPT !.entry = "extract_permissions", !.pc = "done",
                                       !.data = data,
                                       !.permissions = extract_permissions(data)]]
    /\ UNCHANGED <<stdin, stdout, proxy, environment, admitted, limiter, validated, now, ticks, started, lifecycle, session, cb,
                   stats, streak, token_cache, rate_limits>>

NextPermissions ==
    \/ \E t \in Tasks : CallExtractPermissions(t)
    \/ \E t \in Tasks : Finish(t)

\* Callers of _extract_permissions_from_dashboard_response.
SpecPermissions == Init /\ [][NextPermissions]_vars

\* The lines the MCP client writes to the proxy's standard input.
Lines ==
    { Line("blank", None, ""),
      Line("garbage", None, ""),
      Line("object", None, "notifications/initialized"),
      Line("object", "1", "tools/list"),
      Line("object", "2", "tools/call") }

\* The MCP client writes a line to the proxy's standard input.
StdinWrite(line) ==
    /\ started < MaxLines
    /\ stdin' = Append(stdin, line)
    /\ started' = started + 1
    /\ UNCHANGED <<stdout, proxy, environment, admitted, limiter, validated, now, ticks, lifecycle,
                   session, cb, stats, streak, token_cache, rate_limits, task>>

\* One iteration of `for line in sys.stdin` up to session.post: a blank line is
\* skipped, a line that is no JSON is answered with -32700, an object is posted.
ProxyRead ==
    /\ proxy.pc = "reading"
    /\ stdin # <<>>
    /\ stdin' = Tail(stdin)
    /\ LET line == Head(stdin)
       IN  CASE line.text = "blank" -> UNCHANGED <<stdout, proxy>>
             [] line.text = "garbage" ->
                    /\ stdout' = Append(stdout, StdoutLine(None, "error", -32700))
                    /\ UNCHANGED proxy
             [] OTHER ->
                    /\ proxy' = [proxy EXCEPT !.pc = "posted", !.request = line]
                    /\ UNCHANGED stdout
    /\ UNCHANGED <<environment, admitted, limiter, validated, now, ticks, started, lifecycle,
                   session, cb, stats, streak, token_cache, rate_limits, task>>

\* session.post returned or raised: the iteration prints its line.
ProxyResponse ==
    /\ proxy.pc = "posted"
    /\ \E response \in ProxyReplies(proxy.request) :
          /\ proxy' = [proxy EXCEPT !.pc = "reading", !.response = response]
          /\ \E out \in printed(proxy.request, response) : stdout' = Append(stdout, out)
    /\ UNCHANGED <<stdin, environment, admitted, limiter, validated, now, ticks, started, lifecycle,
                   session, cb, stats, streak, token_cache, rate_limits, task>>

NextBridge ==
    \/ \E line \in Lines : StdinWrite(line)
    \/ ProxyRead
    \/ ProxyResponse

\* The stdio bridge claude-desktop-proxy.py between an MCP client and the endpoint.
SpecBridge == Init /\ [][NextBridge]_vars

\* The values of MessageType, and no "type" at all.
MessageTypes == {"request", "response", "notification", "error", None}

\* Messages given to Server.handle_message.
ServerMessages ==
    { ServerMessage(ty, m, i) :
        ty \in MessageTypes,
        m \in Routes \cup {"unknown_method", None},
        i \in {"msg-123", None} }

\* The handlers registered on the Server: none, the two a partial setup
\* registers, all four.
HandlerSets == { {}, {"list_tools", "call_tool"}, Routes }

\* A caller awaits Server.handle_message(message); the handler it awaits touches
\* nothing of the Server.
CallHandleMessage(t) ==
    /\ NoAnswerPending
    /\ task[t].pc = "idle"
    /\ \E message \in ServerMessages, handlers \in HandlerSets, raises \in BOOLEAN :
          task' = [task EXCEPT ![t] =
                      [IdleTask EXCEPT !.entry = "handle_message", !.pc = "done",
                                       !.message = message, !.handlers = handlers,
                                       !.handler_raises = raises,
                                       !.response = handle_message(handlers, message, raises)]]
    /\ UNCHANGED <<stdin, stdout, proxy, environment, admitted, limiter, validated, now, ticks,
                   started, lifecycle, session, cb, stats, streak, token_cache, rate_limits>>

NextServer ==
    \/ \E t \in Tasks : CallHandleMessage(t)
    \/ \E t \in Tasks : Finish(t)

\* Callers of Server.handle_message of the fallback stdio server.
SpecServer == Init /\ [][NextServer]_vars

\* The mcp_message dicts add_request_metadata is given, with the params mappings
\* they refer to: without "params", with empty params, with arguments, with a
\* _request_metadata the caller wrote.
MetadataInputs ==
    { [objects |-> <<params>>, mcp_message |-> McpMessage(i, m, has, 1)] :
        params \in { EmptyParams, Params({"name"}, NoMetadata), SpoofedParams },
        i \in {"1", "2"},
        m \in {"list_tools", "call_tool"},
        has \in BOOLEAN }

\* A caller calls MCPRequestPreprocessor.add_request_metadata(mcp_message, user,
\* request_id): no await, one step. The task keeps what mcp_message read before
\* the call, what the same dict reads after it, and what the dict returned reads.
CallAddRequestMetadata(t) ==
    /\ NoAnswerPending
    /\ task[t].pc = "idle"
    /\ \E input \in MetadataInputs, u \in HandlerUsers :
          LET call == stamp_metadata(input.objects, input.mcp_message, u)
          IN  task' = [task EXCEPT ![t] =
                  [IdleTask EXCEPT
                      !.entry = "add_request_metadata", !.pc = "done", !.user = u,
                      !.mcp_message = read_message(input.objects, input.mcp_message),
                      !.mcp_message_after = read_message(call.objects, input.mcp_message),
                      !.processed_message =
                          read_message(call.objects, call.processed_message)]]
    /\ UNCHANGED <<stdin, stdout, proxy, environment, admitted, limiter, validated, now, ticks,
                   started, lifecycle, session, cb, stats, streak, token_cache, rate_limits>>

NextMetadata ==
    \/ \E t \in Tasks : CallAddRequestMetadata(t)
    \/ \E t \in Tasks : Finish(t)

\* Callers of MCPRequestPreprocessor.add_request_metadata.
SpecMetadata == Init /\ [][NextMetadata]_vars




\* ------------------------------------------------------------------ claims

\* A task whose request is an authenticated one: not a public path, not OPTIONS.
Guarded(t) ==
    /\ task[t].entry = "http"
    /\ task[t].path \notin PublicPaths
    /\ task[t].method # "OPTIONS"

\* Task t is inside forward_mcp_request, past the breaker's gate.
InFlight(t) == task[t].pc \in {"gw_post", "gw_sleep"}

\* The step in which task t calls forward_mcp_request in SpecGateway.
EntersForward(t) == task[t].pc = "idle" /\ task'[t].pc # "idle"

\* C1: scenario A.  A POST /v1/mcp with an id and a well-formed body, whose token the
\* auth service reports valid for a user with a tenant and mcp:execute, admitted by
\* the rate limiter, with a gateway that answers healthy and 200 success whenever
\* it is asked, is answered {jsonrpc, id, result} after exactly one POST to the
\* gateway's execute endpoint, which carries the stamped metadata.
C1_ScenarioA ==
    \A t \in Tasks :
        ( /\ task[t].pc = "done"
          /\ Guarded(t)
          /\ task[t].auth_reply.status = 200
          /\ task[t].auth_reply.valid
          /\ task[t].auth_reply.user # None
          /\ task[t].auth_reply.tenant # None
          /\ "mcp:execute" \in Range(task[t].auth_reply.perm_items)
          /\ task[t].handler_ran
          /\ task[t].req = [method |-> "list_tools", id |-> "1", size |-> max_size_bytes,
                            params |-> SpoofedParams]
          /\ task[t].hc \in {"unasked", "healthy"}
          /\ task[t].gate # "rejected"
          /\ task[t].errors = 0
          /\ task[t].gw_reply.kind = "response" =>
                 task[t].gw_reply.status = 200 /\ task[t].gw_reply.success )
        => /\ task[t].resp.kind = "result"
           /\ task[t].resp.id = task[t].req.id
           /\ task[t].posts = 1
           /\ task[t].payload.sent
           /\ task[t].payload.mcp_message.stamped

\* C2: the authentication gate.  On a guarded request the handler runs only with a
\* user context from a valid token and after the rate limiter admitted the request;
\* a missing or invalid token is answered 401 and an over-limit user 429, and then
\* the handler has not run and the gateway was not called.
C2_AuthenticationGate ==
    \A t \in Tasks :
        Guarded(t) =>
            /\ task[t].handler_ran =>
                   /\ task[t].user.present
                   /\ task[t].validation.valid
                   /\ task[t].rl_checked
                   /\ task[t].rl_count < task[t].user.rate_limit
            /\ ( /\ task[t].pc = "done"
                 /\ \/ task[t].token \in {None, ""}
                    \/ task[t].validation.error # None )
               => task[t].resp = HttpResponse(401)
            /\ ( /\ task[t].pc = "done"
                 /\ task[t].rl_checked
                 /\ task[t].rl_count >= task[t].user.rate_limit )
               => task[t].resp = HttpResponse(429)
            /\ task[t].resp.status \in {401, 429} =>
                   /\ ~task[t].handler_ran
                   /\ task[t].hc = "unasked"
                   /\ task[t].posts = 0
                   /\ ~task[t].payload.sent

C2_Witness ==
    \E t \in Tasks :
        /\ Guarded(t)
        /\ task[t].pc = "done"
        /\ task[t].validation.valid
        /\ task[t].rl_count >= task[t].user.rate_limit
        /\ task[t].resp.status = 429

\* The handler of task t has just been handed a message with no id.
C3_NotificationArrives(t) ==
    /\ ~task[t].handler_ran
    /\ task'[t].handler_ran
    /\ task'[t].req.id = None

C3_Acknowledged(t) ==
    /\ task[t].pc = "done"
    /\ task[t].resp = EmptyResponse(204)
    /\ task[t].hc = "unasked"
    /\ task[t].gate = "none"
    /\ task[t].posts = 0
    /\ ~task[t].payload.sent

\* C3: a message with no id, whatever its method and user, is answered by an empty
\* 204 in the step the handler receives it: no result or error body, no health
\* check, no forward, and the breaker and the gateway counters stay as they were.
C3_Notification ==
    /\ [](\A t \in Tasks :
             (task[t].handler_ran /\ task[t].req.id = None) => C3_Acknowledged(t))
    /\ [][\A t \in Tasks :
             C3_NotificationArrives(t) => (cb' = cb /\ stats' = stats)]_vars

C3_Witness ==
    \E t \in Tasks :
        /\ task[t].handler_ran
        /\ task[t].req.id = None
        /\ task[t].req.method = "list_tools"
        /\ task[t].user.tenant_id = None
        /\ session

\* C4: an open breaker has counted at least failure_threshold failures.
C4_OpenImpliesThreshold ==
    cb.state = "open" => cb.failure_count >= failure_threshold

C4_Witness ==
    /\ cb.state = "open"
    /\ \E t \in Tasks : InFlight(t)

\* A step that records a failure, and one that records a success, on the breaker.
RecordsFailure == stats'.failed = stats.failed + 1

RecordsSuccess ==
    \E t \in Tasks : task[t].pc = "gw_post" /\ task'[t].outcome = "success"

C5_Step ==
    /\ RecordsFailure =>
           /\ cb'.failure_count = cb.failure_count + 1
           /\ cb'.last_failure_time = now
           /\ (cb'.state = "open") <=> (cb'.failure_count >= failure_threshold)
    /\ (RecordsSuccess /\ cb.state \in {"closed", "half-open"}) =>
           /\ cb'.failure_count = 0
           /\ cb'.state = "closed"
    /\ (cb.state # "open" /\ cb'.state = "open") =>
           /\ RecordsFailure
           /\ streak' >= failure_threshold
    /\ \A t \in Tasks :
           ( /\ EntersForward(t)
             /\ cb.state = "open"
             /\ now - cb.last_failure_time < recovery_timeout )
           => task'[t].gate = "rejected"

\* C5: the breaker's transitions.  A recorded failure adds one to failure_count,
\* sets last_failure_time, and leaves the breaker open exactly when the count has
\* reached the threshold; a recorded success in closed or half-open zeroes the count
\* and closes; the breaker opens only in a failure step that ends a run of at least
\* failure_threshold failures with no success between them; a call that finds the
\* breaker open before recovery_timeout has elapsed is rejected.
C5_Transitions ==
    /\ [][C5_Step]_vars
    /\ [](cb.state = "open" => streak >= failure_threshold)

C5_Witness ==
    /\ cb.state = "open"
    /\ now - cb.last_failure_time < recovery_timeout
    /\ now > cb.last_failure_time
    /\ \E t \in Tasks : task[t].pc = "done" /\ task[t].gate = "rejected"

\* C6: a call that finds the breaker open at least recovery_timeout seconds after
\* last_failure_time passes the gate and leaves the breaker half-open.
C6_Recovery ==
    [][\A t \in Tasks :
          ( /\ EntersForward(t)
            /\ cb.state = "open"
            /\ cb.last_failure_time # NoTime
            /\ now - cb.last_failure_time >= recovery_timeout )
          => task'[t].gate = "half-open"]_vars

\* C7: at most one call is past the gate of a half-open breaker at a time.
C7_SingleProbe ==
    Cardinality({t \in Tasks : InFlight(t) /\ task[t].gate = "half-open"}) <= 1

C8_Step ==
    \A t \in Tasks :
        (task[t].gate # "rejected" /\ task'[t].gate = "rejected") =>
            /\ task'[t].pc = "done"
            /\ task'[t].fwd = MCPForwardResponse(FALSE, None,
                   Error(-32603, "Gateway service temporarily unavailable", ""))
            /\ task'[t].posts = 0
            /\ task'[t].attempts = 0
            /\ task'[t].backoffs = 0
            /\ cb' = cb
            /\ stats' = stats

\* C8: a call the breaker rejects returns success=false, -32603 "Gateway service
\* temporarily unavailable" at once: no POST, no attempt, no backoff, and the
\* breaker and the request counters as before.
C8_FastFail == [][C8_Step]_vars

C8_Witness ==
    \E t \in Tasks :
        /\ task[t].pc = "done"
        /\ task[t].gate = "rejected"
        /\ stats.total >= failure_threshold

\* C9: the retry loop sleeps for another attempt only after an error of the
\* transport; a reply 400, 401, 403 or 429 and a failure that is not of the
\* transport end the call in the attempt that met them.
C9_OnlyTransportRetried ==
    \A t \in Tasks :
        task[t].pc = "gw_sleep" => task[t].last_error \in TransportErrors

\* C10: attempts run one after another; a call whose attempt k returns after k-1
\* attempts raised made exactly k <= retry_attempts attempts and returns that
\* attempt's response; a call whose attempts all raise made exactly retry_attempts.
C10_RetryCount ==
    \A t \in Tasks :
        /\ task[t].pc = "gw_post" => task[t].attempts = task[t].errors + 1
        /\ task[t].pc = "gw_sleep" => task[t].attempts = task[t].errors
        /\ task[t].attempts <= retry_attempts
        /\ (task[t].pc = "done" /\ task[t].outcome = "success") =>
               /\ task[t].attempts = task[t].errors + 1
               /\ task[t].fwd = Translate(task[t].gw_reply)
        /\ (task[t].pc = "done" /\ task[t].outcome = "failure") =>
               /\ task[t].errors = retry_attempts
               /\ task[t].attempts = retry_attempts

C10_Witness ==
    \E t \in Tasks :
        /\ task[t].pc = "done"
        /\ task[t].outcome = "success"
        /\ task[t].errors = 2
        /\ task[t].transport = 2
        /\ task[t].attempts = 3
        /\ task[t].posts = 3
        /\ task[t].fwd.success

C11_Step ==
    \A t \in Tasks :
        /\ (task[t].outcome # "failure" /\ task'[t].outcome = "failure") =>
               /\ task'[t].pc = "done"
               /\ task'[t].attempts = retry_attempts
               /\ cb'.failure_count = cb.failure_count + 1
               /\ stats'.failed = stats.failed + 1
               /\ stats'.active = stats.active - 1
               /\ ~task'[t].fwd.success
               /\ task'[t].fwd.error.code = -32603
               /\ task'[t].fwd.error.message = "Gateway communication error"
               /\ task'[t].fwd.error.detail # ""
        /\ (task[t].pc # "gw_sleep" /\ task'[t].pc = "gw_sleep") =>
               /\ cb'.failure_count = cb.failure_count
               /\ cb'.last_failure_time = cb.last_failure_time
               /\ stats'.failed = stats.failed

\* C11: forward_mcp_request always ends by returning a response.  The step in which
\* its last attempt fails adds one to the breaker's failure_count and to
\* failed_requests, takes the call out of active_requests and returns success=false,
\* -32603 "Gateway communication error: <details>"; an attempt that is followed by
\* another records nothing; active_requests counts the calls past the gate that
\* have not returned.
C11_FailureRecordedOnce ==
    /\ [][C11_Step]_vars
    /\ [](/\ stats.active = Cardinality({t \in Tasks : InFlight(t)})
          /\ \A t \in Tasks :
                 task[t].pc = "done" =>
                     /\ task[t].fwd.made
                     /\ task[t].outcome \in {"success", "failure", "rejected"})

C11_Witness ==
    \E t, u \in Tasks :
        /\ task[t].pc = "done"
        /\ task[t].outcome = "failure"
        /\ task[t].posts = retry_attempts
        /\ InFlight(u)
        /\ stats.active = 1
        /\ stats.failed = 1

\* C12: an attempt of forward_mcp_request made while the client has no session
\* (before start() or after stop()) makes no POST and ends the call at once with
\* the 'not initialized' failure: no backoff sleep, no further attempt.
C12_FailFast ==
    [][\A t \in Tasks :
          (task'[t].attempts = task[t].attempts + 1 /\ ~session) =>
              /\ task'[t].posts = task[t].posts
              /\ task'[t].backoffs = task[t].backoffs
              /\ task'[t].pc = "done"
              /\ task'[t].outcome = "failure"
              /\ task'[t].fwd.error.detail = "not_initialized"]_vars

\* C13: the answer of handle_mcp_request to a request whose forward ended on a
\* gateway reply with a status other than 200 is the JSON-RPC error for the
\* request's id that forward_mcp_request returned, with code -32602 for 400,
\* -32001 "Authentication failed" for 401, -32002 "Access denied" for 403,
\* -32003 "Rate limit exceeded" for 429 and -32603 for any other status.
C13_StatusMapping ==
    \A t \in Tasks :
        ( /\ task[t].pc = "done"
          /\ task[t].handler_ran
          /\ task[t].gw_reply.kind = "response"
          /\ task[t].gw_reply.status # 200 )
        => /\ task[t].resp.kind = "error"
           /\ task[t].resp.id = task[t].req.id
           /\ task[t].resp.error = task[t].fwd.error
           /\ CASE task[t].gw_reply.status = 400 -> task[t].resp.error.code = -32602
                [] task[t].gw_reply.status = 401 ->
                       /\ task[t].resp.error.code = -32001
                       /\ task[t].resp.error.message = "Authentication failed"
                [] task[t].gw_reply.status = 403 ->
                       /\ task[t].resp.error.code = -32002
                       /\ task[t].resp.error.message = "Access denied"
                [] task[t].gw_reply.status = 429 ->
                       /\ task[t].resp.error.code = -32003
                       /\ task[t].resp.error.message = "Rate limit exceeded"
                [] OTHER ->
                       /\ task[t].resp.error.code = -32603
                       /\ task[t].outcome = "failure"

\* A call of get_user_context (validate_token) by task t has returned.
Validated(t) == task[t].entry = "validate" /\ task[t].pc = "done"

\* The step in which task t calls get_user_context in SpecAuth.
EntersValidate(t) == task[t].pc = "idle" /\ task'[t].entry = "validate"

\* C14: whatever the token and whatever the auth service does (any status, a body
\* that cannot be decoded, a timeout or a connection error on every attempt),
\* validate_token returns a TokenValidation, no exception leaves it, and a result
\* with valid=false carries one of the four errors.
C14_NeverRaises ==
    \A t \in Tasks :
        Validated(t) =>
            /\ task[t].validation.error # "raised"
            /\ task[t].validation.valid => task[t].validation.error = None
            /\ ~task[t].validation.valid =>
                   /\ task[t].validation.error \in
                          {"missing_token", "invalid_token", "rate_limit_exceeded",
                           "service_unavailable"}
                   /\ ~task[t].user.present

C14_Witness ==
    \E t \in Tasks :
        /\ Validated(t)
        /\ task[t].auth_errors = 2
        /\ task[t].auth_reply.kind = "malformed"
        /\ task[t].validation.error = "service_unavailable"

\* C15: a call of validate_token for a token whose validation succeeded less than
\* cache_ttl_seconds ago returns at once, with no call to the auth service, the
\* result of that first validation, whatever calls for other tokens came between.
C15_CacheHit ==
    [][\A t \in Tasks :
          ( /\ EntersValidate(t)
            /\ task'[t].token \in DOMAIN validated
            /\ validated[task'[t].token].validation.valid
            /\ now - validated[task'[t].token].at < cache_ttl_seconds )
          => /\ task'[t].pc = "done"
             /\ task'[t].auth_calls = 0
             /\ task'[t].validation = validated[task'[t].token].validation]_vars

\* C16: every entry of the token cache holds a validation with valid=true, and a
\* call of validate_token for a (non-empty) token whose last validation failed
\* goes to the auth service.
C16_OnlySuccessCached ==
    /\ [](\A k \in DOMAIN token_cache : token_cache[k].validation.valid)
    /\ [][\A t \in Tasks :
             ( /\ EntersValidate(t)
               /\ task'[t].token # ""
               /\ task'[t].token \in DOMAIN validated
               /\ ~validated[task'[t].token].validation.valid )
             => /\ task'[t].pc = "auth_post"
                /\ task'[t].auth_calls = 1]_vars

C16_Witness ==
    \E t \in Tasks :
        /\ task[t].entry = "validate"
        /\ task[t].pc = "auth_post"
        /\ task[t].token \in DOMAIN validated
        /\ validated[task[t].token].validation.error = "service_unavailable"
        /\ \A k \in DOMAIN token_cache : token_cache[k].validation.valid

\* The call of task t ended on a response of the auth service.
EndedOnResponse(t) ==
    Validated(t) /\ task[t].auth_reply.kind \in {"response", "malformed"}

\* A 200 response that reports the token valid and carries a user object.
ReportsValidUser(r) ==
    r.kind = "response" /\ r.status = 200 /\ r.valid /\ r.user # None

\* The statuses other than 200.
C17_OtherStatuses(t) ==
    /\ task[t].auth_reply.status = 401 => task[t].validation.error = "invalid_token"
    /\ task[t].auth_reply.status = 429 =>
           task[t].validation.error = "rate_limit_exceeded"
    /\ task[t].auth_reply.status \notin {200, 401, 429} =>
           task[t].validation.error = "service_unavailable"

ReportsValid(r) ==
    r.kind = "response" /\ r.status = 200 /\ r.valid /\ (r.user # None \/ r.user_id # None)

\* The calls of _call_auth_service of task t: one call after every network error
\* but the last allowed one, none after a response.
C18_Calls(t) ==
    /\ task[t].auth_calls <= auth_retry_attempts
    /\ task[t].pc = "auth_post" => task[t].auth_calls = task[t].auth_errors + 1
    /\ task[t].pc = "auth_sleep" =>
           /\ task[t].auth_calls = task[t].auth_errors
           /\ task[t].auth_calls < auth_retry_attempts
    /\ (Validated(t) /\ task[t].auth_reply.kind # "none") =>
           task[t].auth_calls = task[t].auth_errors + 1
    /\ (Validated(t) /\ task[t].auth_reply.kind = "none" /\ task[t].auth_calls > 0) =>
           /\ task[t].auth_calls = auth_retry_attempts
           /\ task[t].auth_errors = auth_retry_attempts
           /\ task[t].validation.error = "service_unavailable"

\* C18: validate_token calls the auth service one call after the other until the
\* first HTTP response, at most retry_attempts times; two network errors and then
\* a response reporting the token valid make 3 calls and a valid result; a network
\* error on every attempt makes retry_attempts calls and ServiceUnavailable.
C18_AuthRetry ==
    \A t \in Tasks :
        task[t].entry = "validate" =>
            /\ C18_Calls(t)
            /\ ( /\ Validated(t)
                 /\ task[t].auth_errors = 2
                 /\ ReportsValid(task[t].auth_reply) ) =>
                   /\ task[t].auth_calls = 3
                   /\ task[t].validation.valid

\* The user a 200 response names: the id of its user object, else its user_id.
NamedUser(r) == IF r.user # None THEN r.user ELSE r.user_id

\* C19: for a 200 response with valid=true that carries user_id and tenant_id,
\* validate_token returns valid=true with that user_id and that tenant_id, and
\* get_user_context returns a UserContext with the same user_id, tenant_id and
\* permissions.
C19_IdentityCarried ==
    \A t \in Tasks :
        ( /\ Validated(t)
          /\ ReportsValid(task[t].auth_reply)
          /\ task[t].auth_reply.tenant # None ) =>
            /\ task[t].validation.valid
            /\ task[t].validation.user_id = NamedUser(task[t].auth_reply)
            /\ task[t].validation.tenant_id = task[t].auth_reply.tenant
            /\ task[t].user.present
            /\ task[t].user.user_id = task[t].validation.user_id
            /\ task[t].user.tenant_id = task[t].validation.tenant_id
            /\ task[t].user.permissions = task[t].validation.permissions

\* The step in which task t calls validate_token("").
C20_Step(t) ==
    (EntersValidate(t) /\ task'[t].token = "") =>
        /\ task'[t].pc = "done"
        /\ ~task'[t].validation.valid
        /\ task'[t].validation.error = "missing_token"
        /\ task'[t].auth_calls = 0
        /\ token_cache' = token_cache

\* C20: validate_token("") returns valid=false with the error MissingToken, makes
\* no call to the auth service and leaves the token cache as it was.
C20_MissingToken ==
    /\ [](\A t \in Tasks :
            (task[t].entry = "validate" /\ task[t].token = "") =>
                /\ task[t].pc = "done"
                /\ task[t].auth_calls = 0
                /\ task[t].validation = MissingToken)
    /\ [][\A t \in Tasks : C20_Step(t)]_vars

C20_Witness ==
    \E t \in Tasks :
        /\ Validated(t)
        /\ task[t].token = ""
        /\ task[t].validation.error = "missing_token"
        /\ task[t].auth_calls = 0

\* The counters self._rate_limits holds: user, hour bucket, count.
Counters(rl) ==
    UNION { { <<uid, b, rl[uid][b]>> : b \in DOMAIN rl[uid] } : uid \in DOMAIN rl }

\* check_rate_limit calls of user uid that returned True in hour bucket b.
Admitted(uid, b) == DictGet(DictGet(admitted, uid, EmptyDict), b, 0)

\* The step in which task t calls check_rate_limit.
ChecksRateLimit(t) == task[t].pc = "idle" /\ task'[t].entry = "check_rate_limit"

\* The step in which task t calls get_rate_limit_info.
AsksRateLimitInfo(t) == task[t].pc = "idle" /\ task'[t].entry = "get_rate_limit_info"

\* A call of check_rate_limit returns True exactly when fewer than N calls of the
\* user returned True in this hour bucket, and a call that returns False leaves
\* every counter as it was.
C21_CheckStep(t) ==
    ChecksRateLimit(t) =>
        /\ task'[t].allowed <=>
               Admitted(task'[t].user.user_id, HourBucket(now)) < task'[t].user.rate_limit
        /\ ~task'[t].allowed => Counters(rate_limits') = Counters(rate_limits)

\* get_rate_limit_info reports limit = N and what is left of N, 0 once N calls
\* were admitted in this hour bucket, and leaves every counter as it was.
C21_InfoStep(t) ==
    AsksRateLimitInfo(t) =>
        /\ task'[t].rate_info.limit = task'[t].user.rate_limit
        /\ task'[t].rate_info.remaining =
               task'[t].user.rate_limit - Admitted(task'[t].user.user_id, HourBucket(now))
        /\ Admitted(task'[t].user.user_id, HourBucket(now)) = task'[t].user.rate_limit =>
               task'[t].rate_info.remaining = 0
        /\ Counters(rate_limits') = Counters(rate_limits)

\* C21: with rate limiting enabled, for a user with rate_limit = N exactly the
\* first N check_rate_limit calls of an hour bucket return True, every later call
\* of that bucket returns False without changing the counter, get_rate_limit_info
\* then reports limit = N and remaining = 0, and never changes the counters.
C21_HourlyLimit ==
    /\ [](\A u \in RateLimitUsers : Admitted(u.user_id, HourBucket(now)) <= u.rate_limit)
    /\ [][\A t \in Tasks : C21_CheckStep(t) /\ C21_InfoStep(t)]_vars

C21_Witness ==
    \E t \in Tasks :
        /\ task[t].pc = "done"
        /\ task[t].entry = "get_rate_limit_info"
        /\ task[t].user.rate_limit = default_rate_limit
        /\ HourBucket(now) > 0
        /\ Admitted(task[t].user.user_id, HourBucket(now)) = default_rate_limit
        /\ DictGet(DictGet(rate_limits, task[t].user.user_id, EmptyDict), HourBucket(now), 0)
               = default_rate_limit
        /\ task[t].rate_info.remaining = 0
        /\ task[t].rate_info.limit = default_rate_limit

\* C22: under any interleaving of concurrent request-handling tasks of one user
\* within one hour bucket, the check_rate_limit calls that return True never
\* exceed the user's rate_limit: two concurrent requests at the boundary are
\* never both admitted.
C22_NeverOverAdmitted ==
    /\ \A uid \in DOMAIN admitted :
           \A b \in DOMAIN admitted[uid] : admitted[uid][b] <= default_rate_limit
    /\ \A t \in Tasks :
           (Guarded(t) /\ task[t].rl_checked /\ task[t].resp.status # 429) =>
               Admitted(task[t].user.user_id, HourBucket(now)) <= task[t].user.rate_limit

\* One request of a user takes the last place of the hour while another request
\* of the same user is awaiting the auth service.
C22_Witness ==
    \E t1, t2 \in Tasks :
        /\ t1 # t2
        /\ Guarded(t1) /\ Guarded(t2)
        /\ task[t1].rl_checked
        /\ task[t1].resp.status # 429
        /\ task[t1].rl_count = task[t1].user.rate_limit - 1
        /\ Admitted(task[t1].user.user_id, HourBucket(now)) = task[t1].user.rate_limit
        /\ task[t2].pc = "auth_post"
        /\ task[t2].token = task[t1].token

\* The handler of task t was handed a request with an id.
HandlesRequest(t) == task[t].handler_ran /\ task[t].req.id # None

\* Task t made no gateway health check and no forward.
NothingForwarded(t) ==
    /\ task[t].hc = "unasked"
    /\ task[t].gate = "none"
    /\ task[t].posts = 0
    /\ ~task[t].payload.sent
    /\ ~task[t].fwd.made

\* C23: a request with an id from a user without tenant_id is answered with the
\* JSON-RPC error -32002 "Tenant access required for MCP operations", one from a
\* user with a tenant but none of mcp:read, mcp:execute, mcp:admin with -32002
\* "Insufficient permissions for MCP operations"; in both cases there is no
\* gateway health check and no forward.
C23_CoarseAuthorization ==
    \A t \in Tasks :
        HandlesRequest(t) =>
            /\ task[t].user.tenant_id = None =>
                   /\ task[t].pc = "done"
                   /\ task[t].resp = MCPErrorResponse(task[t].req.id,
                          Error(-32002, "Tenant access required for MCP operations", ""))
                   /\ NothingForwarded(t)
            /\ ( /\ task[t].user.tenant_id # None
                 /\ Range(task[t].user.permissions)
                        \cap {"mcp:read", "mcp:execute", "mcp:admin"} = {} ) =>
                   /\ task[t].pc = "done"
                   /\ task[t].resp = MCPErrorResponse(task[t].req.id,
                          Error(-32002, "Insufficient permissions for MCP operations", ""))
                   /\ NothingForwarded(t)

C23_Witness ==
    \E t \in Tasks :
        /\ HandlesRequest(t)
        /\ task[t].user.tenant_id # None
        /\ "mcp:execute" \notin Range(task[t].user.permissions)
        /\ task[t].resp.error.message = "Insufficient permissions for MCP operations"

\* The request of task t passed coarse authorization and the structural check.
ReachesSizeCheck(t) ==
    /\ HandlesRequest(t)
    /\ task[t].user.tenant_id # None
    /\ Range(task[t].user.permissions) \cap {"mcp:read", "mcp:execute", "mcp:admin"} # {}
    /\ task[t].req.method \notin BlankMethods

\* C24: an authorized request whose MCP message serializes to more than 1 MiB
\* (1048576 bytes) is answered with the JSON-RPC error -32602 "Request too large"
\* and never forwarded; a message of 1048576 bytes or less passes the check.
C24_SizeCheck ==
    \A t \in Tasks :
        ReachesSizeCheck(t) =>
            /\ task[t].req.size > 1048576 =>
                   /\ task[t].pc = "done"
                   /\ task[t].resp = MCPErrorResponse(task[t].req.id,
                          Error(-32602, "Request too large", ""))
                   /\ NothingForwarded(t)
            /\ task[t].req.size <= 1048576 =>
                   /\ task[t].resp.error.message # "Request too large"
                   /\ task[t].hc # "unasked" \/ task[t].pc = "health"

C24_Witness ==
    \E t \in Tasks :
        /\ ReachesSizeCheck(t)
        /\ task[t].req.size = 1048576 + 1
        /\ task[t].resp.error = Error(-32602, "Request too large", "")

\* The user of task t passes coarse authorization.
Authorized(t) ==
    /\ task[t].user.tenant_id # None
    /\ Range(task[t].user.permissions) \cap {"mcp:read", "mcp:execute", "mcp:admin"} # {}

HealthCheckFails(t) ==
    /\ task[t].hc = "unasked"
    /\ task'[t].hc \in {"unhealthy", "error", "not_started"}

\* C26: when health_check returns False (gateway unhealthy, unreachable, client
\* not started), handle_mcp_request answers with the JSON-RPC error -32603
\* "Gateway service unavailable", forward_mcp_request is not called, and the
\* circuit breaker and the request counters are as they were.
C26_PreflightHealthCheck ==
    [][\A t \in Tasks :
          HealthCheckFails(t) =>
              /\ task'[t].pc = "done"
              /\ task'[t].resp = MCPErrorResponse(task'[t].req.id,
                     Error(-32603, "Gateway service unavailable", ""))
              /\ task'[t].gate = "none"
              /\ task'[t].posts = 0
              /\ ~task'[t].payload.sent
              /\ ~task'[t].fwd.made
              /\ cb' = cb
              /\ stats' = stats]_vars

C26_Witness ==
    \E t \in Tasks :
        /\ task[t].pc = "done"
        /\ task[t].hc = "unhealthy"
        /\ cb.failure_count > 0
        /\ task[t].resp.error.message = "Gateway service unavailable"

\* The response of task t is a JSON-RPC response with exactly one of result, error.
OneOfResultOrError(r) ==
    \/ r.kind = "result" /\ r.result \notin {None, NotADict} /\ r.error = NoError
    \/ r.kind = "error" /\ r.result = None /\ r.error # NoError

\* C27: every request with an id that reaches handle_mcp_request gets one JSON-RPC
\* response with the request's own id and exactly one of result or error, for
\* every gateway outcome (a 200 reply with success=false and no error object
\* too); what the handler raises becomes the error -32603 "Internal error: ..."
\* and does not leave it.
C27_OneResponse ==
    \A t \in Tasks :
        (HandlesRequest(t) /\ task[t].pc = "done") =>
            /\ task[t].resp.id = task[t].req.id
            /\ task[t].resp.status = 200
            /\ OneOfResultOrError(task[t].resp)
            /\ ( /\ task[t].fwd.made
                 /\ \/ ~task[t].fwd.success /\ task[t].fwd.error = NoError
                    \/ task[t].fwd.success /\ task[t].fwd.result = NotADict ) =>
                   /\ task[t].resp.error.code = -32603
                   /\ task[t].resp.error.message = "Internal error"

C27_Witness ==
    \E t \in Tasks :
        /\ HandlesRequest(t)
        /\ task[t].pc = "done"
        /\ task[t].gw_reply.status = 200
        /\ task[t].fwd.made
        /\ ~task[t].fwd.success
        /\ task[t].fwd.error = NoError
        /\ task[t].resp.error.message = "Internal error"

\* The timestamps of identifier id that lie within the last window_seconds.
Recent(id) ==
    SelectSeq(attempts_of(limiter, id), LAMBDA ts : ts >= now - window_seconds)

\* The step in which task t calls the method op of the RateLimiter.
CallsLimiter(t, op) == task[t].pc = "idle" /\ task'[t].entry = op

\* The step leaves the timestamps of every identifier but that of task t alone.
OthersUntouched(t) ==
    \A id \in Identifiers \ {task'[t].identifier} :
        attempts_of(limiter', id) = attempts_of(limiter, id)

\* is_allowed drops the timestamps older than the window, then admits and appends
\* the current time exactly when fewer than max_attempts are left.
C28_IsAllowedStep(t) ==
    CallsLimiter(t, "is_allowed") =>
        /\ task'[t].allowed <=> Len(Recent(task'[t].identifier)) < max_attempts
        /\ attempts_of(limiter', task'[t].identifier) =
               IF task'[t].allowed
               THEN Append(Recent(task'[t].identifier), now)
               ELSE Recent(task'[t].identifier)
        /\ OthersUntouched(t)

\* C28: is_allowed(id) evicts the timestamps of id older than window_seconds and
\* returns True, appending the current time, exactly when fewer than max_attempts
\* remain; so it never returns True for an identifier with max_attempts or more
\* timestamps within the last window_seconds, whatever is_allowed and
\* record_failed_attempt calls came before, and calls for one identifier never
\* change the outcome for another.
C28_Admission ==
    [][\A t \in Tasks :
          /\ C28_IsAllowedStep(t)
          /\ CallsLimiter(t, "record_failed_attempt") =>
                 /\ attempts_of(limiter', task'[t].identifier) =
                        Append(attempts_of(limiter, task'[t].identifier), now)
                 /\ OthersUntouched(t)]_vars

C28_Witness ==
    \E t \in Tasks :
        /\ task[t].pc = "done"
        /\ task[t].entry = "is_allowed"
        /\ ~task[t].allowed
        /\ now > window_seconds
        /\ Len(Recent(task[t].identifier)) >= max_attempts
        /\ Len(attempts_of(limiter, task[t].identifier)) = Len(Recent(task[t].identifier))
        /\ \E id \in Identifiers \ {task[t].identifier} :
               Len(attempts_of(limiter, id)) \in 1..(max_attempts - 1)

\* What the three read-outs of the RateLimiter l give for identifier id at time t.
Readout(l, id, t) ==
    <<is_allowed(l, id, t), get_remaining_attempts(l, id, t), get_reset_time(l, id)>>

\* C29: at every time and for every identifier, get_reset_time(id) is not None
\* exactly when get_remaining_attempts(id) is 0, that is, exactly when
\* is_allowed(id) would reject; the reset time is not in the past; and neither
\* projection changes what a later is_allowed, get_remaining_attempts or
\* get_reset_time call returns.
C29_ProjectionsAgree ==
    /\ [](\A id \in Identifiers :
            /\ get_reset_time(limiter, id) # NoTime <=>
                   get_remaining_attempts(limiter, id, now) = 0
            /\ get_remaining_attempts(limiter, id, now) = 0 <=> ~is_allowed(limiter, id, now)
            /\ get_reset_time(limiter, id) # NoTime => get_reset_time(limiter, id) >= now)
    /\ [][\A t \in Tasks :
            (CallsLimiter(t, "get_remaining_attempts") \/ CallsLimiter(t, "get_reset_time")) =>
                \A id \in Identifiers : Readout(limiter', id, now) = Readout(limiter, id, now)]_vars

\* C30: the development token dev_test123 is a trusted identity only in a
\* development configuration; in a production configuration
\* validate_token("dev_test123") is treated like any other token and never gives
\* valid=true with admin:all without a call to the auth service.
C30_DevTokenOnlyInDevelopment ==
    \A t \in Tasks :
        ( /\ is_production(environment)
          /\ Validated(t)
          /\ task[t].token = "dev_test123"
          /\ task[t].validation.valid
          /\ "admin:all" \in Range(task[t].validation.permissions) ) =>
            task[t].auth_calls > 0

\* Task t returned from _extract_permissions_from_dashboard_response.
Extracts(t) == task[t].entry = "extract_permissions" /\ task[t].pc = "done"

\* scope:resource for every scope and resource, scope-major.
IsCrossProduct(p, scopes, resources) ==
    /\ Len(p) = Len(scopes) * Len(resources)
    /\ \A i \in 1..Len(scopes) : \A j \in 1..Len(resources) :
          p[(i - 1) * Len(resources) + j] = scopes[i] \o ":" \o resources[j]

\* The permissions the claim names for a list, an object, or neither.
PermissionsFor(p, data) ==
    CASE data.perm_shape = "list" /\ data.perm_items # <<>> -> p = data.perm_items
      [] data.perm_shape = "dict" /\ data.perm_scopes # <<>> /\ data.perm_resources # <<>> ->
            IsCrossProduct(p, data.perm_scopes, data.perm_resources)
      [] OTHER -> p = <<"read:tools", "read:resources", "execute:mcp">>

\* The value each decodable text of JsonTexts denotes; the others denote none.
Denoted(text) ==
    CASE text = <<"[", "mcp:execute", "]">> ->
            PermissionsData("list", <<"mcp:execute">>, <<>>, <<>>)
      [] text = <<"[", "read:tools", ",", "mcp:execute", "]">> ->
            PermissionsData("list", <<"read:tools", "mcp:execute">>, <<>>, <<>>)
      [] text = <<"[", "]">> -> PermissionsData("list", <<>>, <<>>, <<>>)
      [] text = <<"{", "scopes", ":", "[", "read", ",", "write", "]", ",",
                       "resources", ":", "[", "agents", ",", "tasks", "]", "}">> ->
            PermissionsData("dict", <<>>, <<"read", "write">>, <<"agents", "tasks">>)
      [] text = <<"{", "resources", ":", "[", "agents", "]", ",",
                       "scopes", ":", "[", "read", ",", "write", "]", "}">> ->
            PermissionsData("dict", <<>>, <<"read", "write">>, <<"agents">>)
      [] text = <<"{", "scopes", ":", "[", "read", "]", ",",
                       "scopes", ":", "[", "write", "]", ",",
                       "resources", ":", "[", "tasks", "]", "}">> ->
            PermissionsData("dict", <<>>, <<"write">>, <<"tasks">>)
      [] text = <<"{", "scopes", ":", "[", "read", "]", "}">> ->
            PermissionsData("dict", <<>>, <<"read">>, <<>>)
      [] text = <<"{", "}">> -> PermissionsData("dict", <<>>, <<>>, <<>>)
      [] OTHER -> PermissionsData("absent", <<>>, <<>>, <<>>)

\* C31: _extract_permissions_from_dashboard_response returns the list itself for
\* a flat list, the scope-major cross product scope:resource for an object, the
\* result of the decoded value for a JSON string of either shape, and the default
\* set whenever permissions is absent, undecodable or yields an empty list.
C31_PermissionExtraction ==
    \A t \in Tasks :
        Extracts(t) =>
            IF task[t].data.perm_shape = "str"
            THEN PermissionsFor(task[t].permissions, Denoted(task[t].data.perm_items))
            ELSE PermissionsFor(task[t].permissions, task[t].data)

\* A JSON string holding an object was extracted to its four scope:resource pairs.
C31_Witness ==
    \E t \in Tasks :
        /\ Extracts(t)
        /\ task[t].data.perm_shape = "str"
        /\ task[t].permissions = <<"read:agents", "read:tasks", "write:agents", "write:tasks">>

\* The step in which the proxy gets the endpoint's answer to the object it posted.
Answered == proxy.pc = "posted" /\ proxy'.pc = "reading"

\* C32: for a notification line acknowledged by the endpoint with 204,
\* proxy_request writes no JSON-RPC result or error object to standard output;
\* for every non-empty line that is a request exactly one line is written, in
\* input order (lines are only appended, and no further line is read before
\* the request in flight is answered).
C32_StdioBridge ==
    [][ /\ Answered =>
              IF proxy.request.id = None
              THEN proxy'.response.status = 204 => stdout' = stdout
              ELSE /\ Len(stdout') = Len(stdout) + 1
                   /\ SubSeq(stdout', 1, Len(stdout)) = stdout
        /\ proxy.pc = "posted" => Len(stdin') >= Len(stdin)
        /\ Len(stdout') >= Len(stdout)
        /\ SubSeq(stdout', 1, Len(stdout)) = stdout ]_vars

\* Task t returned from Server.handle_message.
HandlesMessage(t) == task[t].entry = "handle_message" /\ task[t].pc = "done"

\* C33: Server.handle_message returns no response for every message whose type
\* is not request; for every request it returns one response of type response
\* that echoes the request's id and holds exactly one of result or error; a
\* method with no route gives error -32601 "Method not found", an exception in
\* a handler gives error -32603.
C33_FallbackServer ==
    \A t \in Tasks :
        HandlesMessage(t) =>
            LET message == task[t].message
                response == task[t].response
            IN  IF message.type # "request"
                THEN ~response.returned
                ELSE /\ response.returned
                     /\ response.type = "response"
                     /\ response.id = message.id
                     /\ ("result" \in response.keys) # ("error" \in response.keys)
                     /\ message.method \notin Routes =>
                            /\ "error" \in response.keys
                            /\ response.code = -32601
                            /\ response.message = "Method not found"
                     /\ ( /\ message.method \in task[t].handlers
                          /\ task[t].handler_raises ) =>
                            "error" \in response.keys /\ response.code = -32603

\* A request whose handler raised was answered with -32603 and its id.
C33_Witness ==
    \E t \in Tasks :
        /\ HandlesMessage(t)
        /\ task[t].message = ServerMessage("request", "call_tool", "msg-123")
        /\ task[t].handler_raises
        /\ task[t].response.code = -32603
        /\ task[t].response.id = "msg-123"

\* Task t returned from add_request_metadata.
AddsMetadata(t) == task[t].entry = "add_request_metadata" /\ task[t].pc = "done"

\* C34: add_request_metadata returns a new message and leaves its input
\* unchanged: after the call the mcp_message passed in, its params mapping
\* included, is equal to what it was before the call.
C34_InputUnchanged ==
    \A t \in Tasks :
        AddsMetadata(t) =>
            /\ task[t].processed_message.params.request_metadata.present
            /\ task[t].mcp_message_after = task[t].mcp_message

\* C35: under concurrent forward_mcp_request calls an open breaker leaves the
\* open state only through can_execute observing that recovery_timeout has
\* elapsed (open -> half-open); the completion of a call that passed the gate
\* before the breaker opened never moves it from open to closed nor resets
\* failure_count while it is open.
C35_OpenLeavesByTimeout ==
    [][ cb.state = "open" =>
          /\ cb'.state # "open" =>
                /\ cb'.state = "half-open"
                /\ RecoveryElapsed(cb, now)
                /\ \E t \in Tasks : EntersForward(t)
          /\ cb'.state = "open" => cb'.failure_count >= cb.failure_count ]_vars

\* A reply with which the gateway rejects the message: 400, 401, 403, 429, or a
\* 200 whose body says success=false.
SemanticRejection(r) ==
    /\ r.kind = "response"
    /\ \/ r.status \in {400, 401, 403, 429}
       \/ r.status = 200 /\ r.json_ok /\ ~r.success

\* C36: a forward_mcp_request whose attempt receives 400, 401, 403 or 429, or a
\* 200 reply with success=false, is recorded on the breaker as a success:
\* failure_count becomes 0, the state closed (also for the half-open probe),
\* failed_requests is not incremented, and the MCPForwardResponse returned has
\* success=false.
C36_RejectionIsSuccess ==
    [][ \A t \in Tasks :
          ( /\ task[t].pc = "gw_post"
            /\ task'[t].pc = "done"
            /\ SemanticRejection(task'[t].gw_reply) ) =>
              /\ cb'.failure_count = 0
              /\ cb'.state = "closed"
              /\ stats'.failed = stats.failed
              /\ task'[t].fwd.made
              /\ ~task'[t].fwd.success ]_vars

\* Task t returns from validate_token(tok) with valid=true and without a call
\* to the auth service, tok not being the development token: a cached result.
ReturnsCached(t) ==
    /\ task[t].pc # "done"
    /\ task'[t].pc = "done"
    /\ task'[t].entry = "validate"
    /\ task'[t].validation.valid
    /\ task'[t].token # "dev_test123"
    /\ task'[t].auth_calls = 0

LooksUp(t) ==
    /\ task[t].pc = "idle"
    /\ task'[t].entry = "validate"
    /\ task'[t].token \notin {"", "dev_test123"}

FailsValidation(t) ==
    /\ task[t].pc # "done"
    /\ task'[t].pc = "done"
    /\ task'[t].entry = "http"
    /\ task'[t].path \notin PublicPaths
    /\ task'[t].method # "OPTIONS"
    /\ task'[t].auth_client = "ok"
    /\ ~token_missing(task'[t].token)
    /\ ~task'[t].validation.valid
    /\ task'[t].validation # Raised

\* C39: in AuthMiddleware.dispatch every token for which validate_token returns
\* valid=false is answered with HTTP 401 whatever the error kind, including
\* ServiceUnavailable after all retries failed and RateLimitExceeded from the
\* auth service; HTTP 503 is produced only when obtaining the auth client or
\* get_user_context raises; and no failed validation consumes the user's
\* rate-limit counter.
C39_FailedValidationIs401 ==
    /\ [][ \A t \in Tasks :
             FailsValidation(t) =>
                /\ task'[t].resp = HttpResponse(401)
                /\ ~task'[t].rl_checked
                /\ rate_limits' = rate_limits
                /\ admitted' = admitted ]_vars
    /\ [](\A t \in Tasks :
             (Guarded(t) /\ task[t].resp.status = 503) =>
                 \/ task[t].auth_client = "raises"
                 \/ task[t].validation = Raised)

\* Every attempt at the auth service failed at the network and the request was
\* answered 401, with the rate-limit table still empty.
C39_Witness ==
    /\ rate_limits = EmptyDict
    /\ \E t \in Tasks :
          /\ Guarded(t)
          /\ task[t].pc = "done"
          /\ task[t].validation.error = "service_unavailable"
          /\ task[t].auth_errors = auth_retry_attempts
          /\ task[t].resp = HttpResponse(401)

\* C40: metadata cannot be spoofed by the caller.  For every request that
\* handle_mcp_request forwards, params._request_metadata of the forwarded message
\* holds the user_id and tenant_id of the authenticated UserContext and
\* public_server = true, whatever _request_metadata the caller put in params, and
\* user_context of the gateway payload names the same user.
C40_MetadataNotSpoofed ==
    \A t \in Tasks :
        task[t].payload.sent =>
            /\ task[t].payload.mcp_message.stamped
            /\ task[t].payload.mcp_message.public_server
            /\ task[t].payload.mcp_message.meta_user_id = task[t].user.user_id
            /\ task[t].payload.mcp_message.meta_tenant_id = task[t].user.tenant_id
            /\ task[t].payload.user_id = task[t].user.user_id
            /\ task[t].payload.tenant_id = task[t].user.tenant_id

\* A request whose params came with a _request_metadata naming another user
\* and tenant, and public_server = false, was forwarded.
C40_Witness ==
    \E t \in Tasks :
        /\ task[t].payload.sent
        /\ task[t].posts > 0
        /\ task[t].req.params = SpoofedParams
        /\ task[t].req.params.request_metadata.user_id # task[t].user.user_id

====
